---- MODULE Spec2Model ----
(***************************************************************************)
(* Agent tool-orchestration runtime of scripts/propose-changes.py:         *)
(*   - CodeExplorerMCP: the dynamic tool registry with its on-disk cache,  *)
(*     and the sandbox manager;                                            *)
(*   - UnifiedChangeProposer.propose_changes: the conversation loop;       *)
(*   - main: the entry point.                                              *)
(*                                                                         *)
(* Durable storage is taken to be reliable: a file or directory operation  *)
(* the code performs on the cache or sandbox directory succeeds. A source  *)
(* text handed to exec either binds its names or raises an Exception; one  *)
(* that raises SystemExit or KeyboardInterrupt ends the process from       *)
(* inside the call and is not among the inputs of this model.              *)
(***************************************************************************)
EXTENDS Integers, Sequences, FiniteSets, TLC

VARIABLES
    mcp,            \* the CodeExplorerMCP object and the two directories it owns
    peer,           \* the CodeExplorerMCP object of a second process that runs on
                    \* the same repository (and so on the same two directories)
    friend,         \* the FriendAI object: its collaboration tasks
    last,           \* the last call made on the CodeExplorerMCP interface, with its result
    pc,             \* where the process is: main, the loop's stages, the exit
    max_iterations, \* the iteration bound of propose_changes
    api,            \* the last failed call of make_api_call_with_retry: what the
                    \* service answered and what the function did
    iteration,      \* the loop counter of propose_changes
    payload,        \* the request body: messages and tools
    pending,        \* the tool calls of the current response not yet handled
    proposed,       \* the value propose_changes returned
    stdout,         \* what was written to the primary output, in order
    exit_code,      \* how the process ended: "0", "1", "traceback" (None while it runs)
    hist            \* observations of the run the properties are stated on

runVars == <<friend, pc, max_iterations, api, iteration, payload, pending, proposed,
             stdout, exit_code, hist>>

loopVars == <<peer, runVars>>

vars == <<mcp, peer, friend, last, pc, max_iterations, api, iteration, payload, pending, proposed,
          stdout, exit_code, hist>>

(***************************************************************************)
(* Bounds                                                                  *)
(***************************************************************************)
\* Longest Operation list a sandbox is driven to.
MaxOps == 2

\* Largest iteration bound a session is configured with.
MaxIterations == 3

\* Most tool calls one response requests.
MaxToolCalls == 2

\* Largest max_retries make_api_call_with_retry is called with.
MaxRetries == 3

\* Most lines of diagnostic text the primary output is driven to.
MaxDiagnostics == 1

\* Most messages a history given to compress_conversation_context holds after
\* the system message and the initial prompt.
MaxHistory == 4

\* Most times compress_conversation_context is reapplied to its own result.
MaxCompressions == 3

\* Most parameters a synthesized function declares.
MaxParams == 2

\* Most file references in an error log.
MaxRefs == 4

\* Lines of the file the error log refers to.
MaxFileLines == 8

\* Turns of tool calls in a history handed to compress_conversation_context.
MaxTurns == 3

\* Lines of a tool result handed to the truncation of compress_conversation_context.
MaxLines == 2

\* Iterations of a run that goes on past the synthesis and RAG thresholds.
MaxLateIterations == 9

\* Files under one root searched by search_files.
MaxRootFiles == 3

\* Lines of a searched file.
MaxSearchLines == 4

\* Largest max_matches passed to search_files.
MaxMatchesArg == 2

\* Most messages of one collaboration task.
MaxMessages == 2

\* Most artifacts of one collaboration task.
MaxArtifacts == 2

(***************************************************************************)
(* Program constants                                                       *)
(***************************************************************************)
\* max_retries of make_api_call_with_retry when the caller passes none
DefaultMaxRetries == 3

\* the shortest wait after a rate limit with a hint, in milliseconds
MinWaitMs == 1000

\* compress_conversation_context returns histories up to this length as they are
CompressMinMessages == 4

\* tool messages kept by compress_conversation_context
RecentToolMessages == 2

\* the loop compresses when iteration exceeds this ...
CompressAfterIteration == 2

\* ... and the history is longer than this
CompressAboveMessages == 5

\* the synthesis directive is injected when iteration exceeds this
SynthesisAfterIteration == 6

\* the RAG-enhanced mode starts when iteration exceeds this
RagAfterIteration == 8

\* recent messages kept after the RAG context message
RagRecentKept == 4

\* max_files of seed_context_from_errors
MaxFiles == 3

\* read_file shows this many lines around a line number
ContextLines == 5

\* search_files reports this many matching lines of a file
LineMatchesKept == 3

(***************************************************************************)
(* Input domains                                                           *)
(***************************************************************************)
ToolNames == {"tool_a", "tool_b"}

Descriptions == {"d1", "d2"}

\* A declared parameter, as inspect.signature reports it: its name, its kind,
\* the annotation object ("empty" when there is none; "other" stands for an
\* annotation that is none of the six types, such as List[int]) and whether
\* it has a default.
ParameterKinds ==
    <<"POSITIONAL_ONLY", "POSITIONAL_OR_KEYWORD", "VAR_POSITIONAL", "KEYWORD_ONLY",
      "VAR_KEYWORD">>

Annotations == {"empty", "int", "float", "bool", "list", "dict", "str", "other"}

Parameter(name, kind, annotation, has_default) ==
    [name |-> name, kind |-> kind, annotation |-> annotation, has_default |-> has_default]

\* The i-th declared parameter is called ParameterNames[i]
ParameterNames == <<"a", "b", "c", "d">>

KindRank(kind) == CHOOSE k \in 1..Len(ParameterKinds) : ParameterKinds[k] = kind

\* The parameter lists a Python def accepts: kinds in the order of
\* ParameterKinds, at most one *args and one **kwargs, neither with a
\* default, and no positional parameter without a default after one with a
\* default
IsSignature(params) ==
    /\ \A i \in 1..Len(params) :
          /\ params[i].name = ParameterNames[i]
          /\ params[i].kind \in {"VAR_POSITIONAL", "VAR_KEYWORD"} => ~params[i].has_default
    /\ \A i, j \in 1..Len(params) :
          i < j =>
            /\ KindRank(params[i].kind) <= KindRank(params[j].kind)
            /\ params[i].kind \in {"VAR_POSITIONAL", "VAR_KEYWORD"}
                  => params[i].kind # params[j].kind
            /\ /\ params[i].kind \in {"POSITIONAL_ONLY", "POSITIONAL_OR_KEYWORD"}
               /\ params[j].kind \in {"POSITIONAL_ONLY", "POSITIONAL_OR_KEYWORD"}
               /\ params[i].has_default
                  => params[j].has_default

Parameters ==
    {Parameter(ParameterNames[i], ParameterKinds[k], annotation, has_default) :
        i \in 1..MaxParams, k \in 1..Len(ParameterKinds), annotation \in Annotations,
        has_default \in BOOLEAN}

Signatures ==
    UNION {{params \in [1..n -> Parameters] : IsSignature(params)} : n \in 0..MaxParams}

\* def tool(a: int, b: str = "x")
ExampleSignature ==
    <<Parameter("a", "POSITIONAL_OR_KEYWORD", "int", FALSE),
      Parameter("b", "POSITIONAL_OR_KEYWORD", "str", TRUE)>>

\* A tool source text, given by what executing it does: the function name it
\* binds ("none" when it binds no function), the parameters that function
\* declares and its body. Two records are equal exactly when the texts are
\* byte-identical.
SrcA1 == [fn |-> "tool_a", params |-> ExampleSignature, body |-> "v1"]
SrcA2 == [fn |-> "tool_a", params |-> ExampleSignature, body |-> "v2"]
SrcB1 == [fn |-> "tool_b", params |-> ExampleSignature, body |-> "v1"]
SrcUnser == [fn |-> "tool_b", params |-> ExampleSignature, body |-> "returns_set"]
SrcSyntaxError == [fn |-> "none", params |-> <<>>, body |-> "syntax_error"]

Codes == {SrcA1, SrcA2, SrcB1, SrcUnser, SrcSyntaxError}

SandboxNames == {"sb1", "sb2"}

SandboxTypes == {"temp_directory", "copy_repo"}

\* The operation types run_in_sandbox dispatches on.
KnownOperationTypes == {"command", "code_execution", "file_operation", "build_test"}

\* What the callers of this model pass as operation_type: two of the four
\* kinds and a string that is none of them.
OperationTypes == {"command", "code_execution", "deploy"}

None == "None"

EmptyFn == [x \in {} |-> None]

Put(f, k, v) == [x \in (DOMAIN f) \cup {k} |-> IF x = k THEN v ELSE f[x]]

Drop(f, k) == [x \in (DOMAIN f) \ {k} |-> f[x]]

(***************************************************************************)
(* CodeExplorerMCP: dynamic tools and their cache                          *)
(***************************************************************************)
\* hashlib.md5(tool_code.encode()).hexdigest(): a digest that depends on the
\* source text alone, and differs for the different texts of this model.
md5(tool_code) == <<"md5", tool_code.fn, tool_code.params, tool_code.body>>

\* cache_dir / f"{tool_name}_{tool_hash}.pkl"
cache_file(tool_name, tool_code) == <<tool_name, md5(tool_code)>>

\* exec(tool_code, safe_globals) raises
ExecRaises(tool_code) == tool_code.body = "syntax_error"

\* tool_name in safe_globals, after exec(tool_code, safe_globals)
InSafeGlobals(tool_name, tool_code) == tool_code.fn = tool_name

\* _load_cached_tool: <<the pickled tool data>> when the cache file exists,
\* else <<>> (None).  cache_dir holds the files with a complete pickle; a file
\* that exists without one (cache_truncated) makes pickle.load raise, and the
\* except clause returns None as well.
_load_cached_tool(m, tool_name, tool_code) ==
    IF cache_file(tool_name, tool_code) \in DOMAIN m.cache_dir
    THEN <<m.cache_dir[cache_file(tool_name, tool_code)]>>
    ELSE <<>>

\* A _cache_tool whose write is lost
_cache_tool_lost(m, tool_name, tool_code, description) == m

\* open(cache_file, 'wb') of _cache_tool: the file exists and is empty
_cache_tool_open(m, tool_name, tool_code) ==
    [m EXCEPT !.cache_dir = Drop(@, cache_file(tool_name, tool_code)),
              !.cache_truncated = @ \cup {cache_file(tool_name, tool_code)}]

\* pickle.dump(tool_data, f) of _cache_tool and the close of the file: the
\* file holds {name, code, description, hash}
_cache_tool_dump(m, tool_name, tool_code, description) ==
    [m EXCEPT !.cache_dir =
                  Put(@, cache_file(tool_name, tool_code),
                      [name |-> tool_name, code |-> tool_code,
                       description |-> description, hash |-> md5(tool_code)]),
              !.cache_truncated = @ \ {cache_file(tool_name, tool_code)}]

\* _cache_tool: pickle {name, code, description, hash} into the cache file
_cache_tool(m, tool_name, tool_code, description) ==
    _cache_tool_dump(_cache_tool_open(m, tool_name, tool_code),
                     tool_name, tool_code, description)

\* safe_globals[tool_name] after exec(tool_code, safe_globals): the function
\* object, given by its signature (the sources of this model bind functions)
tool_func(tool_code) == tool_code.params

\* The schema primitive _generate_tool_schema infers from an annotation
param_type(annotation) ==
    CASE annotation = "int" -> "integer"
      [] annotation = "float" -> "number"
      [] annotation = "bool" -> "boolean"
      [] annotation = "list" -> "array"
      [] annotation = "dict" -> "object"
      [] OTHER -> "string"

\* _generate_tool_schema: the function schema, with one property for each
\* entry of sig.parameters and the names without a default in "required"
_generate_tool_schema(func, tool_name, description) ==
    [name |-> tool_name, description |-> description,
     properties |-> [n \in {func[i].name : i \in 1..Len(func)} |->
                        LET i == CHOOSE i \in 1..Len(func) : func[i].name = n
                        IN param_type(func[i].annotation)],
     required |-> LET no_default == SelectSeq(func, LAMBDA param : ~param.has_default)
                  IN [i \in 1..Len(no_default) |-> no_default[i].name]]

\* tool_func(**arguments) binds: every name passed is that of a parameter
\* that takes a keyword, or the function has **kwargs, and every parameter
\* without a default that is neither *args nor **kwargs is passed (by
\* keyword, which a positional-only parameter does not take)
Binds(func, arguments) ==
    LET takes_keyword == {i \in 1..Len(func) :
                            func[i].kind \in {"POSITIONAL_OR_KEYWORD", "KEYWORD_ONLY"}}
        has_var_keyword == \E i \in 1..Len(func) : func[i].kind = "VAR_KEYWORD"
    IN /\ \A n \in arguments :
             has_var_keyword \/ \E i \in takes_keyword : func[i].name = n
       /\ \A i \in 1..Len(func) :
             /\ func[i].kind = "POSITIONAL_ONLY" => func[i].has_default
             /\ i \in takes_keyword /\ ~func[i].has_default => func[i].name \in arguments

\* self.dynamic_tools[tool_name] = {...}
RegisterTool(m, tool_name, tool_code, description) ==
    [m EXCEPT !.dynamic_tools =
        Put(m.dynamic_tools, tool_name,
            [code |-> tool_code, description |-> description, cached |-> FALSE,
             schema |-> _generate_tool_schema(tool_func(tool_code), tool_name,
                                              description)])]

\* The body of the loop of _load_cached_tools for one cache file: a file
\* without a complete pickle makes pickle.load raise and is skipped, and so is
\* a source that raises; a source that binds the name is registered under it,
\* whatever the registry held under that name
load_cache_file(m, file) ==
    IF file \notin DOMAIN m.cache_dir THEN m
    ELSE LET tool_data == m.cache_dir[file]
         IN IF ExecRaises(tool_data.code) THEN m
            ELSE IF InSafeGlobals(tool_data.name, tool_data.code)
            THEN [m EXCEPT !.dynamic_tools =
                     Put(@, tool_data.name,
                         [code |-> tool_data.code,
                          description |-> tool_data.description, cached |-> TRUE,
                          schema |-> _generate_tool_schema(tool_func(tool_data.code),
                                                           tool_data.name,
                                                           tool_data.description)])]
            ELSE m

\* _load_cached_tools: cache_files is list(self.cache_dir.glob("*.pkl")), in
\* the order the directory listing gives
RECURSIVE _load_cached_tools(_, _)
_load_cached_tools(m, cache_files) ==
    IF cache_files = <<>> THEN m
    ELSE _load_cached_tools(load_cache_file(m, Head(cache_files)), Tail(cache_files))

\* The orders in which glob can list the files of the cache directory
GlobOrders(m) ==
    LET files == (DOMAIN m.cache_dir) \cup m.cache_truncated
    IN {order \in [1..Cardinality(files) -> files] :
           \A f \in files : \E i \in DOMAIN order : order[i] = f}

\* create_dynamic_tool: the new object state, the returned payload, and whether
\* the source was executed
create_dynamic_tool(m, tool_name, tool_code, description) ==
    IF _load_cached_tool(m, tool_name, tool_code) # <<>>
    THEN [mcp |-> m, status |-> "success", cached |-> TRUE, compiled |-> FALSE]
    ELSE IF ExecRaises(tool_code)
    THEN [mcp |-> m, status |-> "error", cached |-> FALSE, compiled |-> TRUE]
    ELSE IF InSafeGlobals(tool_name, tool_code)
    THEN [mcp |-> _cache_tool(RegisterTool(m, tool_name, tool_code, description),
                              tool_name, tool_code, description),
          status |-> "success", cached |-> FALSE, compiled |-> TRUE]
    ELSE [mcp |-> m, status |-> "error", cached |-> FALSE, compiled |-> TRUE]

\* call_dynamic_tool: what the call hands back to handle_function_call.
\*   "error"        an error payload (tool not registered, or the function raised)
\*   "value"        a JSON-serializable value returned by the function
\*   "unserializable"  a value json.dumps cannot encode (the function's return
\*                  value is handed back unchecked)
call_dynamic_tool(m, tool_name, args_ok) ==
    IF tool_name \notin DOMAIN m.dynamic_tools THEN "error"
    ELSE IF ~args_ok THEN "error"
    ELSE IF m.dynamic_tools[tool_name].code.body = "returns_set" THEN "unserializable"
    ELSE "value"

\* get_tool_schemas: the schemas of all registered dynamic tools
get_tool_schemas(m) ==
    {m.dynamic_tools[n].schema : n \in DOMAIN m.dynamic_tools}

(***************************************************************************)
(* CodeExplorerMCP: sandboxes                                              *)
(***************************************************************************)
\* The files of the repository root that _copy_repo_to_sandbox copies
RepoFiles == {"README.md"}

\* The directories of the repository root that _copy_repo_to_sandbox copies
RepoDirs == {"backend"}

\* _copy_repo_to_sandbox: the files the workspace of the sandbox holds after
\* the copy, as pairs <<sandbox directory, file>>
_copy_repo_to_sandbox(files, sandbox_name) ==
    files \cup {<<sandbox_name, f>> : f \in RepoFiles \cup RepoDirs}

\* create_sandbox
create_sandbox(m, sandbox_name, sandbox_type) ==
    IF sandbox_name \in DOMAIN m.sandboxes
    THEN [mcp |-> m, status |-> "error"]
    ELSE [mcp |-> [m EXCEPT
                     !.sandbox_dir = @ \cup {sandbox_name},
                     !.sandbox_files =
                         IF sandbox_type = "copy_repo"
                         THEN _copy_repo_to_sandbox(@, sandbox_name)
                         ELSE @,
                     !.sandboxes = Put(@, sandbox_name,
                         [name |-> sandbox_name, type |-> sandbox_type,
                          operations |-> <<>>, status |-> "active"])],
          status |-> "success"]

\* What can go wrong in _copy_repo_to_sandbox: nothing, shutil.copy2 raises
\* on the first file, shutil.copytree raises part-way through a directory
CopyFaults == {"none", "copy2", "copytree"}

\* create_sandbox with its except clause. shutil.copytree raises by itself
\* when its destination exists. The directory of the sandbox is made before
\* the copy starts, and what was copied before the exception stays.
create_sandbox_try(m, sandbox_name, sandbox_type, fault) ==
    IF sandbox_name \in DOMAIN m.sandboxes
    THEN [mcp |-> m, status |-> "error"]
    ELSE IF sandbox_type = "copy_repo" /\ fault = "copy2"
    THEN [mcp |-> [m EXCEPT !.sandbox_dir = @ \cup {sandbox_name}],
          status |-> "error"]
    ELSE IF /\ sandbox_type = "copy_repo"
            /\ \/ fault = "copytree"
               \/ \E d \in RepoDirs : <<sandbox_name, d>> \in m.sandbox_files
    THEN [mcp |-> [m EXCEPT !.sandbox_dir = @ \cup {sandbox_name},
                            !.sandbox_files = _copy_repo_to_sandbox(@, sandbox_name)],
          status |-> "error"]
    ELSE create_sandbox(m, sandbox_name, sandbox_type)

\* The "operation" string of a file operation, parsed: which key it holds
\* and the path under that key.  A path is relative to the workspace of the
\* sandbox; up = 2 and dir = d stand for "../../d/workspace/<file>".
FilePath(up, dir, file) == [up |-> up, dir |-> dir, file |-> file]

NoOperationData == [key |-> "operation", path |-> FilePath(0, None, None)]

\* workspace_path / path: the sandbox directory and the file a path names
ResolvePath(sandbox_name, path) ==
    IF path.up = 0 THEN <<sandbox_name, path.file>> ELSE <<path.dir, path.file>>

\* _run_sandbox_file_operation: the directories and files after the operation
\* and its "success" field; raises says that write_text raised.
_run_sandbox_file_operation(m, sandbox_name, operation_data, raises) ==
    IF operation_data.key = "create_file"
    THEN LET file_path == ResolvePath(sandbox_name, operation_data.path)
         IN IF raises
            THEN [mcp |-> m, success |-> FALSE]
            ELSE [mcp |-> [m EXCEPT !.sandbox_dir = @ \cup {file_path[1]},
                                    !.sandbox_files = @ \cup {file_path}],
                  success |-> TRUE]
    ELSE IF operation_data.key = "read_file"
    THEN [mcp |-> m, success |-> TRUE]
    ELSE [mcp |-> m, success |-> FALSE]

\* A run_in_sandbox that records only the operations that succeeded
run_in_sandbox_unrecorded_failure(m, sandbox_name, operation_type, operation_data, success) ==
    IF sandbox_name \notin DOMAIN m.sandboxes
    THEN [mcp |-> m, status |-> "error"]
    ELSE IF operation_type \notin {"command", "code_execution", "file_operation",
                                   "build_test"}
    THEN [mcp |-> m, status |-> "error"]
    ELSE IF ~success
    THEN [mcp |-> m, status |-> "success"]
    ELSE [mcp |-> [m EXCEPT !.sandboxes[sandbox_name].operations =
                              Append(@, [id |-> Len(@) + 1, type |-> operation_type,
                                         status |-> "completed"])],
          status |-> "success"]

\* A run_in_sandbox that appends the record before the helper has run
run_in_sandbox_recorded_running(m, sandbox_name, operation_type, operation_data, success) ==
    IF sandbox_name \notin DOMAIN m.sandboxes
    THEN [mcp |-> m, status |-> "error"]
    ELSE IF operation_type \notin {"command", "code_execution", "file_operation",
                                   "build_test"}
    THEN [mcp |-> m, status |-> "error"]
    ELSE [mcp |-> [m EXCEPT !.sandboxes[sandbox_name].operations =
                              Append(@, [id |-> Len(@) + 1, type |-> operation_type,
                                         status |-> IF success THEN "completed"
                                                    ELSE "running"])],
          status |-> "success"]

\* run_in_sandbox; for a command, a code fragment and a build, success is the
\* "success" field of what the _run_sandbox_* helper returned (exit code 0, no
\* exception in the fragment); for a file operation it says that the helper
\* did not raise, and the helper decides.
run_in_sandbox(m, sandbox_name, operation_type, operation_data, success) ==
    IF sandbox_name \notin DOMAIN m.sandboxes
    THEN [mcp |-> m, status |-> "error"]
    ELSE IF operation_type \notin KnownOperationTypes
    THEN [mcp |-> m, status |-> "error"]
    ELSE LET sandbox == m.sandboxes[sandbox_name]
             result ==
                 IF operation_type = "file_operation"
                 THEN _run_sandbox_file_operation(m, sandbox_name, operation_data,
                                                  ~success)
                 ELSE [mcp |-> m, success |-> success]
             operation_record ==
                 [id |-> Len(sandbox.operations) + 1,
                  type |-> operation_type,
                  status |-> IF result.success THEN "completed" ELSE "failed"]
         IN [mcp |-> [result.mcp EXCEPT !.sandboxes[sandbox_name].operations =
                                             Append(@, operation_record)],
             status |-> "success"]

\* inspect_sandbox reads the sandbox and changes nothing
inspect_sandbox(m, sandbox_name) ==
    IF sandbox_name \notin DOMAIN m.sandboxes
    THEN [mcp |-> m, status |-> "error"]
    ELSE [mcp |-> m, status |-> "success"]

\* unsaved_ops of cleanup_sandbox
unsaved_ops(sandbox) ==
    SelectSeq(sandbox.operations, LAMBDA op : op.status = "completed")

\* A cleanup_sandbox without the check for completed operations
cleanup_sandbox_unguarded(m, sandbox_name, force) ==
    IF sandbox_name \notin DOMAIN m.sandboxes
    THEN [mcp |-> m, status |-> "error"]
    ELSE [mcp |-> [m EXCEPT !.sandbox_dir = @ \ {sandbox_name},
                            !.sandbox_files = {f \in @ : f[1] # sandbox_name},
                            !.sandboxes = [x \in (DOMAIN @) \ {sandbox_name} |-> @[x]]],
          status |-> "success"]

\* cleanup_sandbox
cleanup_sandbox(m, sandbox_name, force) ==
    IF sandbox_name \notin DOMAIN m.sandboxes
    THEN [mcp |-> m, status |-> "error"]
    ELSE IF ~force /\ m.sandboxes[sandbox_name].operations # <<>>
            /\ unsaved_ops(m.sandboxes[sandbox_name]) # <<>>
    THEN [mcp |-> m, status |-> "warning"]
    ELSE [mcp |-> [m EXCEPT !.sandbox_dir = @ \ {sandbox_name},
                            !.sandbox_files = {f \in @ : f[1] # sandbox_name},
                            !.sandboxes = Drop(@, sandbox_name)],
          status |-> "success"]

\* CodeExplorerMCP.__init__ in a process started on the storage an earlier
\* process left: both registries start empty, the cache and the sandbox
\* directories are kept as they are (mkdir(exist_ok=True)), and the cached
\* tools are loaded
__init__(m, cache_files) ==
    _load_cached_tools([m EXCEPT !.dynamic_tools = EmptyFn, !.sandboxes = EmptyFn],
                       cache_files)

(***************************************************************************)
(* make_api_call_with_retry                                                *)
(***************************************************************************)
\* What the inference service answers to one request: a response with its
\* status and, on 429, the hint of its error message; or no response at all
\* (requests.post raises).
Answer(status, hint) == [status |-> status, hint |-> hint]

\* Hints of a 429 error message: "Please try again in 630ms", "... in 2s",
\* "... in 1500ms", and a message without such a phrase
Hints == {"630ms", "2s", "1500ms", "none"}

Answers ==
    {Answer("200", "none"), Answer("500", "none"), Answer("exception", "none")}
        \cup {Answer("429", h) : h \in Hints}

\* What the regular expression extracts from a hint: the number and the unit
wait_match(hint) ==
    CASE hint = "630ms" -> [number |-> 630, unit |-> "ms"]
      [] hint = "2s" -> [number |-> 2, unit |-> "s"]
      [] hint = "1500ms" -> [number |-> 1500, unit |-> "ms"]

Max(a, b) == IF a >= b THEN a ELSE b

\* wait_time, in milliseconds: the hinted duration but no less than a second,
\* or 2^retry_count + retry_count / 2 seconds without a hint
wait_time(hint, retry_count) ==
    IF hint = "none"
    THEN (2 ^ retry_count) * 1000 + retry_count * 500
    ELSE LET m == wait_match(hint)
             seconds_as_ms == IF m.unit = "ms" THEN m.number ELSE m.number * 1000
         IN Max(seconds_as_ms, MinWaitMs)

\* The while loop of make_api_call_with_retry from its head, with retry_count,
\* the requests sent so far and the waits made so far
RECURSIVE retry_loop(_, _, _, _, _)
retry_loop(answers, max_retries, retry_count, sent, waits) ==
    LET response == answers[sent + 1]
    IN IF response.status = "exception"
       THEN [sent |-> sent + 1, waits |-> waits, status |-> "exception", raised |-> TRUE]
       ELSE IF response.status = "429" /\ retry_count + 1 < max_retries
       THEN retry_loop(answers, max_retries, retry_count + 1, sent + 1,
                       Append(waits, wait_time(response.hint, retry_count + 1)))
       ELSE [sent |-> sent + 1, waits |-> waits, status |-> response.status,
             raised |-> FALSE]

\* Variants of the loop: one that retries the statuses given, and waits once
\* more when the bound is reached if wait_at_bound
RECURSIVE retry_loop_variant(_, _, _, _, _, _, _)
retry_loop_variant(answers, max_retries, retry_count, sent, waits, retried, wait_at_bound) ==
    LET response == answers[sent + 1]
    IN IF response.status = "exception"
       THEN [sent |-> sent + 1, waits |-> waits, status |-> "exception", raised |-> TRUE]
       ELSE IF response.status \in retried /\ retry_count + 1 < max_retries
       THEN retry_loop_variant(answers, max_retries, retry_count + 1, sent + 1,
                               Append(waits, wait_time(response.hint, retry_count + 1)),
                               retried, wait_at_bound)
       ELSE [sent |-> sent + 1,
             waits |-> IF response.status \in retried /\ wait_at_bound
                       THEN Append(waits, wait_time(response.hint, retry_count + 1))
                       ELSE waits,
             status |-> response.status, raised |-> FALSE]

\* A make_api_call_with_retry that waits also after the last attempt
make_api_call_with_retry_waits_at_bound(answers, max_retries) ==
    retry_loop_variant(answers, max_retries, 0, 0, <<>>, {"429"}, TRUE)

\* A make_api_call_with_retry that retries every status but 200
make_api_call_with_retry_any_error(answers, max_retries) ==
    retry_loop_variant(answers, max_retries, 0, 0, <<>>, {"429", "500"}, FALSE)

\* make_api_call_with_retry, given what the service answers to the first,
\* second, ... request: the requests sent, the waits made, and the status of
\* the response returned (raised: requests.post raised instead)
make_api_call_with_retry(answers, max_retries) ==
    retry_loop(answers, max_retries, 0, 0, <<>>)

\* No call of make_api_call_with_retry is on record
NoApi ==
    [max_retries |-> 0, answers |-> <<>>, done |-> FALSE, sent |-> 0, waits |-> <<>>,
     status |-> None, raised |-> FALSE, turn |-> 0]

\* The record of a call: its inputs, what it did, and the inference turn it
\* was made in
ApiCall(answers, max_retries, turn) ==
    LET r == make_api_call_with_retry(answers, max_retries)
    IN [max_retries |-> max_retries, answers |-> answers, done |-> TRUE,
        sent |-> r.sent, waits |-> r.waits, status |-> r.status, raised |-> r.raised,
        turn |-> turn]

(***************************************************************************)
(* CodeExplorerMCP.__init__ on an empty repository directory               *)
(***************************************************************************)
InitMcp ==
    [dynamic_tools |-> EmptyFn, cache_dir |-> EmptyFn,
     cache_truncated |-> {},
     sandboxes |-> EmptyFn, sandbox_dir |-> {}, sandbox_files |-> {}]

\* The FriendAI object after __init__: no collaboration task
NoFriend == [active_tasks |-> EmptyFn]

\* The second process before it has started
NoPeer ==
    [dynamic_tools |-> EmptyFn, sandboxes |-> EmptyFn, pc |-> "idle", pending |-> <<>>]

\* repeat: the call is a create_dynamic_tool whose (name, source) had been
\* synthesized with success before, on this object.
NoCall ==
    [op |-> "none", name |-> None, code |-> SrcSyntaxError, description |-> None,
     operation_type |-> None, success |-> FALSE, force |-> FALSE,
     status |-> None, cached |-> FALSE, compiled |-> FALSE, repeat |-> FALSE,
     arguments |-> {}, error_log |-> <<>>, repo |-> EmptyFn, session |-> 0,
     operation_data |-> NoOperationData,
     original_content |-> <<>>, key_lines_content |-> <<>>, truncated |-> FALSE,
     search_paths |-> <<>>, max_matches |-> 0, matches |-> <<>>,
     sandbox_type |-> None, fault |-> None]

(***************************************************************************)
(* The state of the process before main has run                            *)
(***************************************************************************)
NoId == <<0, 0>>

\* synthesized: the (name, source) pairs for which create_dynamic_tool has
\*              returned success on this object
\* calls:       inference requests sent so far
\* only_tools:  every response so far requested tool invocations
\* malformed:   terminal responses whose content failed to parse
\* reprompts:   corrective re-prompts appended after a malformed response
\* turn_start:  length of the history when the current response arrived
\* turn_ids:    correlation ids the current response requested, in order
\* skipped:     ids of this turn whose arguments could not be parsed or recovered
\* tool:        the tool invocation handled last in this turn and how it ended
\* fatal:       why the session ended without a proposal ("" otherwise)
\* unknown:     ids of the tool turn answered "Unknown function", until the
\*              next request is sent
\* compressions: times compress_conversation_context was applied to the
\*              history on its own (SpecCompress)
NoTool == [id |-> NoId, outcome |-> "none"]

\* propose_changes has not returned
NotReturned == [json |-> None, analysis |-> None, changes |-> None]

NoHist ==
    [synthesized |-> {}, calls |-> 0, only_tools |-> TRUE, malformed |-> 0,
     reprompts |-> 0, turn_start |-> 0, turn_ids |-> <<>>, skipped |-> {},
     tool |-> NoTool,
     fatal |-> "", compressions |-> 0, unknown |-> {},
     rag |-> [terms_found |-> FALSE, available |-> FALSE]]

IdleLoop ==
    /\ pc = "idle"
    /\ max_iterations = 0
    /\ api = NoApi
    /\ peer = NoPeer
    /\ friend = NoFriend
    /\ iteration = 0
    /\ payload = [messages |-> <<>>, tools |-> {}]
    /\ pending = <<>>
    /\ proposed = NotReturned
    /\ stdout = <<>>
    /\ exit_code = None
    /\ hist = NoHist

(***************************************************************************)
(* SpecRegistry: calls on the tool registry of one CodeExplorerMCP object  *)
(***************************************************************************)
CreateDynamicTool ==
    \E tool_name \in ToolNames, tool_code \in Codes, description \in Descriptions :
        LET r == create_dynamic_tool(mcp, tool_name, tool_code, description)
        IN /\ mcp' = r.mcp
           /\ last' = [NoCall EXCEPT !.op = "create_dynamic_tool",
                                     !.name = tool_name, !.code = tool_code,
                                     !.description = description,
                                     !.status = r.status, !.cached = r.cached,
                                     !.compiled = r.compiled,
                                     !.repeat = <<tool_name, tool_code>> \in hist.synthesized]
           /\ hist' = IF r.status = "success"
                      THEN [hist EXCEPT !.synthesized = @ \cup {<<tool_name, tool_code>>}]
                      ELSE hist
           /\ UNCHANGED <<pc, peer, friend, max_iterations, api, iteration, payload, pending, proposed,
                          stdout, exit_code>>

CallDynamicTool ==
    \E tool_name \in ToolNames, args_ok \in BOOLEAN :
        /\ last' = [NoCall EXCEPT !.op = "call_dynamic_tool", !.name = tool_name,
                                  !.success = args_ok,
                                  !.status = call_dynamic_tool(mcp, tool_name, args_ok)]
        /\ UNCHANGED <<mcp, loopVars>>

InitRegistry == mcp = InitMcp /\ last = NoCall /\ IdleLoop

NextRegistry == CreateDynamicTool \/ CallDynamicTool

SpecRegistry == InitRegistry /\ [][NextRegistry]_vars

C25_LatestSourceRegistered ==
    (last.op = "create_dynamic_tool" /\ last.status = "success")
        => (/\ last.name \in DOMAIN mcp.dynamic_tools
            /\ mcp.dynamic_tools[last.name].code = last.code)

(***************************************************************************)
(* SpecSandbox: calls on the sandbox manager of one CodeExplorerMCP object *)
(***************************************************************************)
CreateSandbox ==
    \E sandbox_name \in SandboxNames, sandbox_type \in SandboxTypes :
        LET r == create_sandbox(mcp, sandbox_name, sandbox_type)
        IN /\ mcp' = r.mcp
           /\ last' = [NoCall EXCEPT !.op = "create_sandbox", !.name = sandbox_name,
                                     !.status = r.status]
           /\ UNCHANGED loopVars

RunInSandbox ==
    \E sandbox_name \in SandboxNames, operation_type \in OperationTypes,
       success \in BOOLEAN :
        LET r == run_in_sandbox(mcp, sandbox_name, operation_type, NoOperationData,
                                success)
        IN /\ sandbox_name \in DOMAIN mcp.sandboxes
                => Len(mcp.sandboxes[sandbox_name].operations) < MaxOps
           /\ mcp' = r.mcp
           /\ last' = [NoCall EXCEPT !.op = "run_in_sandbox", !.name = sandbox_name,
                                     !.operation_type = operation_type,
                                     !.success = success, !.status = r.status]
           /\ UNCHANGED loopVars

InspectSandbox ==
    \E sandbox_name \in SandboxNames :
        LET r == inspect_sandbox(mcp, sandbox_name)
        IN /\ mcp' = r.mcp
           /\ last' = [NoCall EXCEPT !.op = "inspect_sandbox", !.name = sandbox_name,
                                     !.status = r.status]
           /\ UNCHANGED loopVars

CleanupSandbox ==
    \E sandbox_name \in SandboxNames, force \in BOOLEAN :
        LET r == cleanup_sandbox(mcp, sandbox_name, force)
        IN /\ mcp' = r.mcp
           /\ last' = [NoCall EXCEPT !.op = "cleanup_sandbox", !.name = sandbox_name,
                                     !.force = force, !.status = r.status]
           /\ UNCHANGED loopVars

InitSandbox == mcp = InitMcp /\ last = NoCall /\ IdleLoop

NextSandbox == CreateSandbox \/ RunInSandbox \/ InspectSandbox \/ CleanupSandbox

SpecSandbox == InitSandbox /\ [][NextSandbox]_vars

HasCompleted(sandbox) ==
    \E i \in 1..Len(sandbox.operations) : sandbox.operations[i].status = "completed"

C21_CleanupAfterAcknowledgement ==
    [][(/\ last.op = "inspect_sandbox"
        /\ last.status = "success"
        /\ last'.op = "cleanup_sandbox"
        /\ last'.name = last.name
        /\ ~last'.force)
          => (/\ last'.status = "success"
              /\ last'.name \notin DOMAIN mcp'.sandboxes
              /\ last'.name \notin mcp'.sandbox_dir)]_vars

\* C35: the Operations of a sandbox form an append-only list. After every
\* step the i-th record of every sandbox has id op-i (so ids are unique and
\* increase in list order) and no record has status running; and for a
\* sandbox that exists before and after the step, the records it had are
\* still there, unchanged and in the same places.
C35_OperationsAppendOnly ==
    [][/\ \A n \in DOMAIN mcp'.sandboxes :
             \A i \in 1..Len(mcp'.sandboxes[n].operations) :
                 /\ mcp'.sandboxes[n].operations[i].id = i
                 /\ mcp'.sandboxes[n].operations[i].status \in {"completed", "failed"}
       /\ \A n \in (DOMAIN mcp.sandboxes) \cap (DOMAIN mcp'.sandboxes) :
             /\ Len(mcp'.sandboxes[n].operations) >= Len(mcp.sandboxes[n].operations)
             /\ SubSeq(mcp'.sandboxes[n].operations, 1,
                       Len(mcp.sandboxes[n].operations))
                   = mcp.sandboxes[n].operations]_vars

\* A sandbox to which a failed Operation was appended after a completed one
C35_Witness ==
    /\ last.op = "run_in_sandbox"
    /\ last.status = "success"
    /\ last.name \in DOMAIN mcp.sandboxes
    /\ Len(mcp.sandboxes[last.name].operations) = 2
    /\ mcp.sandboxes[last.name].operations[1].status = "completed"
    /\ mcp.sandboxes[last.name].operations[2].id = 2
    /\ mcp.sandboxes[last.name].operations[2].status = "failed"

(***************************************************************************)
(* SpecRestart: sandboxes over processes that start on the storage an      *)
(* earlier process left.  SpecReload: the tool cache over such processes.  *)
(***************************************************************************)
CreateSandboxTry ==
    \E sandbox_name \in SandboxNames, sandbox_type \in SandboxTypes,
       fault \in CopyFaults :
        LET r == create_sandbox_try(mcp, sandbox_name, sandbox_type, fault)
        IN /\ mcp' = r.mcp
           /\ last' = [NoCall EXCEPT !.op = "create_sandbox", !.name = sandbox_name,
                                     !.sandbox_type = sandbox_type,
                                     !.fault = fault, !.status = r.status]
           /\ UNCHANGED loopVars

\* The process ends, with or without cleaning up, and the next one starts
Restart ==
    \E cache_files \in GlobOrders(mcp) :
        /\ mcp' = __init__(mcp, cache_files)
        /\ last' = [NoCall EXCEPT !.op = "__init__"]
        /\ UNCHANGED loopVars

InitRestart == mcp = InitMcp /\ last = NoCall /\ IdleLoop

NextRestart == CreateSandboxTry \/ CleanupSandbox \/ Restart

SpecRestart == InitRestart /\ [][NextRestart]_vars

NextReload == CreateDynamicTool \/ Restart

SpecReload == InitRestart /\ [][NextReload]_vars

\* C36 as claimed: after a successful create of kind temp_directory the
\* workspace of the new sandbox holds nothing, whatever was on storage under
\* that name before.
C36_WorkspaceEmptyAtCreation ==
    (/\ last.op = "create_sandbox"
     /\ last.status = "success"
     /\ last.sandbox_type = "temp_directory")
        => \A f \in mcp.sandbox_files : f[1] # last.name

\* C37 as claimed: a create that fails leaves registry, directories and
\* files as they were; and a create under the same name that directly
\* follows a failed one, and in which nothing goes wrong by itself, succeeds
\* unless the name is registered.
C37_FailedCreateLeavesNoTrace ==
    [][/\ (last'.op = "create_sandbox" /\ last'.status = "error")
            => (/\ mcp'.sandboxes = mcp.sandboxes
                /\ mcp'.sandbox_dir = mcp.sandbox_dir
                /\ mcp'.sandbox_files = mcp.sandbox_files)
       /\ (/\ last.op = "create_sandbox"
           /\ last.status = "error"
           /\ last.name \notin DOMAIN mcp.sandboxes
           /\ last'.op = "create_sandbox"
           /\ last'.name = last.name
           /\ last'.fault = "none")
            => last'.status = "success"]_vars

\* C38 as claimed: the registry of a process started on an intact cache
\* holds every name the registry of the process before held, and binds the
\* name synthesized last with success to the source given then, in whatever
\* order the cache files are listed.
C38_RegistryRestored ==
    [][last'.op = "__init__"
        => (/\ \A n \in DOMAIN mcp.dynamic_tools : n \in DOMAIN mcp'.dynamic_tools
            /\ (last.op = "create_dynamic_tool" /\ last.status = "success")
                  => (/\ last.name \in DOMAIN mcp'.dynamic_tools
                      /\ mcp'.dynamic_tools[last.name].code = last.code))]_vars

(***************************************************************************)
(* Messages of the conversation                                            *)
(***************************************************************************)
\* content is a text, named by what the code can tell about it; None is the
\* absent content of an assistant message that only requests tools.
\* tool_calls is the list of correlation ids an assistant message requests
\* (<<>>: the message has no "tool_calls").
\* A message: role, content, tool_calls and tool_call_id as in the payload;
\* seeded_context is the part of a user prompt's content that holds the
\* excerpts of the context seed (no other message has one)
Msg(role, content) ==
    [role |-> role, content |-> content, tool_calls |-> <<>>, tool_call_id |-> NoId,
     seeded_context |-> <<>>]

AssistantToolCalls(ids) ==
    [role |-> "assistant", content |-> None, tool_calls |-> ids, tool_call_id |-> NoId,
     seeded_context |-> <<>>]

\* A tool message that does not carry the id of its request
ToolResult_unkeyed(id, content) ==
    [role |-> "tool", content |-> content, tool_calls |-> <<>>, tool_call_id |-> <<0, 0>>,
     seeded_context |-> <<>>]

\* The tool message the loop appends for an executed tool call
ToolResult(id, content) ==
    [role |-> "tool", content |-> content, tool_calls |-> <<>>, tool_call_id |-> id,
     seeded_context |-> <<>>]

SystemMessage == Msg("system", "system")

InitialPrompt == Msg("user", "prompt")

\* The initial prompt with the excerpts seed_context_from_errors returned
SeededPrompt(seeded_context) == [InitialPrompt EXCEPT !.seeded_context = seeded_context]

\* json.dumps(result) is one line. Contents longer than 1000 characters:
\*   big_kw             the line holds one of the key words
\*   big_nokw           the line holds none
\*   big_kw_truncated   a big_kw line followed by a truncation marker that
\*                      gives the length of big_kw
\*   big_kw_truncated2  the same line followed by a marker that gives the
\*                      length of big_kw_truncated
LongContents == {"big_kw", "big_nokw", "big_kw_truncated", "big_kw_truncated2"}

\* The truncation of a long tool content: the key lines among the first 20
\* lines, then a marker holding the length of the content truncated. A key
\* line longer than 1000 characters is kept whole, so the result is long
\* again; its own truncation differs in the length the marker gives, and the
\* truncation of that one gives the same text (the two lengths have the same
\* number of digits).
truncated_content(original_content) ==
    CASE original_content = "big_kw" -> "big_kw_truncated"
      [] original_content = "big_kw_truncated" -> "big_kw_truncated2"
      [] original_content = "big_kw_truncated2" -> "big_kw_truncated2"
      [] original_content = "big_nokw" -> "marker_only"
      [] OTHER -> original_content

LastN(seq, n) ==
    IF Len(seq) <= n THEN seq ELSE SubSeq(seq, Len(seq) - n + 1, Len(seq))

MapSeq(seq, Op(_)) == [i \in 1..Len(seq) |-> Op(seq[i])]

IsToolMessage(msg) ==
    msg.role \in {"assistant", "tool"} /\ (msg.tool_calls # <<>> \/ msg.role = "tool")

CompressTool(msg) ==
    IF msg.role = "tool" /\ msg.content \in LongContents
    THEN [msg EXCEPT !.content = truncated_content(@)]
    ELSE msg

SummaryMessage == Msg("assistant", "compression_summary")

\* A compress_conversation_context that keeps the system message only
compress_conversation_context_unanchored(messages) ==
    IF Len(messages) <= 4 THEN messages
    ELSE SubSeq(messages, 1, 1)
         \o LastN(SelectSeq(SubSeq(messages, 3, Len(messages)), IsToolMessage), 2)

\* A compress_conversation_context that keeps every tool message
compress_conversation_context_all_tools(messages) ==
    IF Len(messages) <= 4 THEN messages
    ELSE SubSeq(messages, 1, 2) \o <<SummaryMessage>>
         \o MapSeq(SelectSeq(SubSeq(messages, 3, Len(messages)), IsToolMessage),
                   CompressTool)

\* compress_conversation_context
compress_conversation_context(messages) ==
    IF Len(messages) <= CompressMinMessages THEN messages
    ELSE LET tool_messages == SelectSeq(SubSeq(messages, 3, Len(messages)), IsToolMessage)
             recent_tools == LastN(tool_messages, RecentToolMessages)
             compressed_tools == MapSeq(recent_tools, CompressTool)
             summary == IF Len(tool_messages) > RecentToolMessages
                        THEN <<SummaryMessage>> ELSE <<>>
         IN SubSeq(messages, 1, 2) \o summary \o compressed_tools

\* The corruption patterns and the regular expression of the sanitization
\* pass rewrite the system message and the initial prompt (both hold quote
\* and bracket runs); a second pass changes nothing more. The directive and
\* summary texts hold no such run.
clean_content(content) ==
    CASE content = "system" -> "system_cleaned"
      [] content = "prompt" -> "prompt_cleaned"
      [] OTHER -> content

\* First pass of the sanitization: which messages are kept ...
IsValidMessage(msg) ==
    IF msg.role \in {"system", "user", "assistant"}
    THEN msg.content # None \/ (msg.role = "assistant" /\ msg.tool_calls # <<>>)
    ELSE msg.role = "tool"

\* The same pass over the lines of an excerpt: a line that holds a run of two
\* or more of } ' " ] (white space between them allowed) is rewritten, the
\* run replaced by one }
clean_line(line) == IF line[2] = "run" THEN <<line[1], "run_rewritten">> ELSE line

clean_hint(hint) ==
    [hint EXCEPT !.excerpt = [i \in 1..Len(hint.excerpt) |-> clean_line(hint.excerpt[i])]]

\* ... and with what content
ValidatedMessage(msg) ==
    IF msg.role \in {"system", "user", "assistant"} /\ msg.content # None
    THEN [msg EXCEPT !.content = clean_content(@),
                     !.seeded_context = [i \in 1..Len(@) |-> clean_hint(@[i])]]
    ELSE msg

validated_messages(messages) == MapSeq(SelectSeq(messages, IsValidMessage), ValidatedMessage)

\* Second pass: clean_messages, from index i on, with the skip_next_tool flag
RECURSIVE clean_messages(_, _, _)
clean_messages(validated, i, skip_next_tool) ==
    IF i > Len(validated) THEN <<>>
    ELSE LET msg == validated[i]
         IN IF skip_next_tool /\ msg.role = "tool"
            THEN clean_messages(validated, i + 1, FALSE)
            ELSE IF msg.role = "assistant" /\ msg.tool_calls # <<>>
            THEN IF i + 1 <= Len(validated) /\ validated[i + 1].role = "tool"
                 THEN <<msg>> \o clean_messages(validated, i + 1, skip_next_tool)
                 ELSE clean_messages(validated, i + 1, TRUE)
            ELSE <<msg>> \o clean_messages(validated, i + 1, skip_next_tool)

\* A sanitization that takes the tool messages for corrupted ones
sanitize_tool_results_dropped(messages) ==
    SelectSeq(clean_messages(validated_messages(messages), 1, FALSE),
              LAMBDA msg : msg.role # "tool")

\* Context validation and sanitization before the API call
sanitize(messages) == clean_messages(validated_messages(messages), 1, FALSE)

\* Keys of what semantic_search returns
SemanticSearchKeys(available) ==
    IF available
    THEN {"query", "total_chunks_analyzed", "results_found", "semantic_matches",
          "model_used", "threshold"}
    ELSE {"error", "fallback_suggestion", "install_command", "note", "alternative"}

RagContextMessage == Msg("assistant", "rag_context")

\* The RAG-enhanced mode: the history it leaves, before its directive
rag_focus(messages, terms_found, available) ==
    IF terms_found
       /\ "error" \notin SemanticSearchKeys(available)
       /\ "results" \in SemanticSearchKeys(available)
    THEN SubSeq(messages, 1, 2) \o <<RagContextMessage>> \o LastN(messages, RagRecentKept)
    ELSE messages

\* A loop head that injects the synthesis directive before it compresses
prepare_messages_directive_first(messages, it, terms_found, available) ==
    LET m1 == IF it > SynthesisAfterIteration
              THEN Append(messages, Msg("user", "synthesis_required")) ELSE messages
        m2 == IF it > CompressAfterIteration /\ Len(m1) > CompressAboveMessages
              THEN compress_conversation_context(m1) ELSE m1
    IN sanitize(m2)

\* The history of the loop's next request: compression, directives, sanitization
prepare_messages(messages, it, terms_found, available) ==
    LET m1 == IF it > CompressAfterIteration /\ Len(messages) > CompressAboveMessages
              THEN compress_conversation_context(messages) ELSE messages
        m2 == IF it > SynthesisAfterIteration
              THEN Append(m1, Msg("user", "synthesis_required")) ELSE m1
        m3 == IF it > RagAfterIteration
              THEN Append(rag_focus(m2, terms_found, available),
                          Msg("user", "synthesis_mode"))
              ELSE m2
    IN sanitize(m3)

(***************************************************************************)
(* SpecBackoff: one call of make_api_call_with_retry                       *)
(***************************************************************************)
MakeApiCallWithRetry ==
    /\ ~api.done
    /\ api' = ApiCall(api.answers, api.max_retries, 0)
    /\ UNCHANGED <<mcp, last, pc, peer, friend, max_iterations, iteration, payload, pending,
                   proposed, stdout, exit_code, hist>>

InitBackoff ==
    /\ mcp = InitMcp
    /\ last = NoCall
    /\ pc = "idle"
    /\ max_iterations = 0
    /\ api \in {[NoApi EXCEPT !.max_retries = n, !.answers = a] :
                    n \in 1..MaxRetries, a \in [1..MaxRetries -> Answers]}
    /\ peer = NoPeer
    /\ friend = NoFriend
    /\ iteration = 0
    /\ payload = [messages |-> <<>>, tools |-> {}]
    /\ pending = <<>>
    /\ proposed = NotReturned
    /\ stdout = <<>>
    /\ exit_code = None
    /\ hist = NoHist

NextBackoff == MakeApiCallWithRetry

SpecBackoff == InitBackoff /\ [][NextBackoff]_vars

\* C16 as claimed: the wait made after a rate-limit response with a hint is
\* the hinted duration: 630 milliseconds for "630ms", 2 seconds for "2s".
C16_WaitEqualsHint ==
    api.done
        => \A i \in 1..Len(api.waits) :
              /\ api.answers[i].hint = "630ms" => api.waits[i] = 630
              /\ api.answers[i].hint = "2s" => api.waits[i] = 2000

\* C18: when the answer to a request is a failure that is no rate limit (an
\* error status other than 429, or an exception of the transport), the
\* function ends with that request: the failure is what it returns or
\* raises, and it neither waits nor sends after it; a failure that answers
\* the first request is handed back after exactly one request and no wait.
C18_NoRetryOfOtherFailures ==
    api.done
        => /\ \A i \in 1..api.sent :
                 api.answers[i].status \in {"500", "exception"}
                    => /\ api.sent = i
                       /\ Len(api.waits) = i - 1
                       /\ api.status = api.answers[i].status
                       /\ api.raised = (api.answers[i].status = "exception")
           /\ api.answers[1].status \in {"500", "exception"}
                 => (api.sent = 1 /\ api.waits = <<>>)

\* C18 witness: the first answer is a status 500 and rate limits would follow;
\* the function has returned the 500 after one request.
C18_Witness ==
    /\ api.done
    /\ api.max_retries = DefaultMaxRetries
    /\ api.answers[1].status = "500"
    /\ api.answers[2].status = "429"
    /\ api.sent = 1
    /\ api.waits = <<>>
    /\ api.status = "500"
    /\ ~api.raised

(***************************************************************************)
(* SpecSchema: a function of any signature is synthesized as tool_a and    *)
(* then called with a set of named arguments                               *)
(***************************************************************************)
SchemaToolName == "tool_a"

\* create_dynamic_tool with a source that binds a function of signature func
CreateToolOfSignature ==
    /\ SchemaToolName \notin DOMAIN mcp.dynamic_tools
    /\ \E func \in Signatures :
          LET tool_code == [fn |-> SchemaToolName, params |-> func, body |-> "v1"]
              r == create_dynamic_tool(mcp, SchemaToolName, tool_code, "d1")
          IN /\ mcp' = r.mcp
             /\ last' = [NoCall EXCEPT !.op = "create_dynamic_tool",
                                       !.name = SchemaToolName, !.code = tool_code,
                                       !.description = "d1", !.status = r.status,
                                       !.cached = r.cached, !.compiled = r.compiled]
    /\ UNCHANGED loopVars

\* call_dynamic_tool with a dictionary that has the keys in arguments
CallToolWithArguments ==
    /\ SchemaToolName \in DOMAIN mcp.dynamic_tools
    /\ last.op = "create_dynamic_tool"
    /\ \E arguments \in SUBSET {ParameterNames[i] : i \in 1..MaxParams} :
          LET func == tool_func(mcp.dynamic_tools[SchemaToolName].code)
              binds == Binds(func, arguments)
          IN last' = [NoCall EXCEPT !.op = "call_dynamic_tool", !.name = SchemaToolName,
                                    !.arguments = arguments, !.success = binds,
                                    !.status = call_dynamic_tool(mcp, SchemaToolName,
                                                                 binds)]
    /\ UNCHANGED <<mcp, loopVars>>

InitSchema == mcp = InitMcp /\ last = NoCall /\ IdleLoop

NextSchema == CreateToolOfSignature \/ CallToolWithArguments

SpecSchema == InitSchema /\ [][NextSchema]_vars

Range(seq) == {seq[i] : i \in 1..Len(seq)}

\* C19 as claimed: the schema of every synthesized tool lists each declared
\* parameter with the primitive of its type (integer, number, boolean, array,
\* object, else string) and marks it required exactly when it has no default,
\* and a call of the tool with only its required parameters succeeds.
C19_SchemaMatchesSignature ==
    \A n \in DOMAIN mcp.dynamic_tools :
       LET func == tool_func(mcp.dynamic_tools[n].code)
           schema == mcp.dynamic_tools[n].schema
       IN /\ DOMAIN schema.properties = {func[i].name : i \in 1..Len(func)}
          /\ \A i \in 1..Len(func) :
                /\ schema.properties[func[i].name]
                      = CASE func[i].annotation = "int" -> "integer"
                          [] func[i].annotation = "float" -> "number"
                          [] func[i].annotation = "bool" -> "boolean"
                          [] func[i].annotation = "list" -> "array"
                          [] func[i].annotation = "dict" -> "object"
                          [] OTHER -> "string"
                /\ func[i].name \in Range(schema.required) <=> ~func[i].has_default
          /\ (/\ last.op = "call_dynamic_tool"
              /\ last.name = n
              /\ last.arguments = Range(schema.required))
                => last.status = "value"

(***************************************************************************)
(* SpecCompress: compress_conversation_context applied to a history, and   *)
(* again to what it returned                                               *)
(***************************************************************************)
\* What follows the system message and the initial prompt in a history
HistoryMessages ==
    {Msg("assistant", "final_text"), Msg("user", "synthesis_required"),
     AssistantToolCalls(<<<<1, 1>>>>), ToolResult(<<1, 1>>, "small"),
     ToolResult(<<1, 1>>, "big_kw"), ToolResult(<<1, 1>>, "big_nokw")}

Histories ==
    {<<SystemMessage, InitialPrompt>> \o h :
        h \in UNION {[1..n -> HistoryMessages] : n \in 0..MaxHistory}}

CompressConversationContext ==
    /\ hist.compressions < MaxCompressions
    /\ payload' = [payload EXCEPT !.messages = compress_conversation_context(@)]
    /\ hist' = [hist EXCEPT !.compressions = @ + 1]
    /\ UNCHANGED <<mcp, last, pc, peer, friend, max_iterations, api, iteration, pending, proposed,
                   stdout, exit_code>>

InitCompress ==
    /\ mcp = InitMcp
    /\ last = NoCall
    /\ pc = "idle"
    /\ max_iterations = 0
    /\ api = NoApi
    /\ peer = NoPeer
    /\ friend = NoFriend
    /\ iteration = 0
    /\ payload \in {[messages |-> h, tools |-> {}] : h \in Histories}
    /\ pending = <<>>
    /\ proposed = NotReturned
    /\ stdout = <<>>
    /\ exit_code = None
    /\ hist = NoHist

NextCompress == CompressConversationContext

SpecCompress == InitCompress /\ [][NextCompress]_vars

\* C11 as claimed: compressing what compression returned gives it back, with
\* every message (the summary included) and every content unchanged.
C11_CompressIdempotent ==
    hist.compressions >= 1
        => compress_conversation_context(payload.messages) = payload.messages

\* C12: whatever the history and however often compression is repeated, the
\* history compress_conversation_context returns starts with the system
\* message and the initial prompt of the history it was given, unchanged.
C12_AnchorsKept ==
    [][hist'.compressions = hist.compressions + 1
       => /\ Len(payload'.messages) >= 2
          /\ payload'.messages[1] = payload.messages[1]
          /\ payload'.messages[2] = payload.messages[2]
          /\ payload'.messages[1] = SystemMessage
          /\ payload'.messages[2] = InitialPrompt]_vars

\* C12 witness: a history compressed twice, from more than five messages to
\* five with the summary and then to four, its long tool result truncated
\* twice.
C12_Witness ==
    /\ hist.compressions = 2
    /\ Len(payload.messages) = 4
    /\ payload.messages[1] = SystemMessage
    /\ payload.messages[2] = InitialPrompt
    /\ payload.messages[4].content = "big_kw_truncated2"

(***************************************************************************)
(* SpecTurns: compress_conversation_context applied to the histories the   *)
(* loop builds when every tool call is executed: after the system message  *)
(* and the initial prompt, one turn after the other, each an assistant     *)
(* message with its tool calls followed by one tool message per call       *)
(***************************************************************************)
TurnContents == {"small", "big_kw"}

\* The messages of turn t when its response requested Len(contents) tool
\* calls and the i-th call returned contents[i]
Turn(t, contents) ==
    <<AssistantToolCalls([i \in 1..Len(contents) |-> <<t, i>>])>>
        \o [i \in 1..Len(contents) |-> ToolResult(<<t, i>>, contents[i])]

\* The histories of n turns
RECURSIVE TurnHistories(_)
TurnHistories(n) ==
    IF n = 0 THEN {<<SystemMessage, InitialPrompt>>}
    ELSE {h \o Turn(n, contents) :
            h \in TurnHistories(n - 1),
            contents \in UNION {[1..k -> TurnContents] : k \in 1..MaxToolCalls}}

InitTurns ==
    /\ mcp = InitMcp
    /\ last = NoCall
    /\ pc = "idle"
    /\ max_iterations = 0
    /\ api = NoApi
    /\ peer = NoPeer
    /\ friend = NoFriend
    /\ iteration = 0
    /\ payload \in {[messages |-> h, tools |-> {}] :
                        h \in UNION {TurnHistories(n) : n \in 0..MaxTurns}}
    /\ pending = <<>>
    /\ proposed = NotReturned
    /\ stdout = <<>>
    /\ exit_code = None
    /\ hist = NoHist

NextTurns == CompressConversationContext

SpecTurns == InitTurns /\ [][NextTurns]_vars

\* The messages of a history from its last assistant message with tool calls on
LastTurn(messages) ==
    LET requests == {i \in 1..Len(messages) :
                        messages[i].role = "assistant" /\ messages[i].tool_calls # <<>>}
    IN IF requests = {} THEN <<>>
       ELSE SubSeq(messages, CHOOSE i \in requests : \A j \in requests : j <= i,
                   Len(messages))

\* C26 as claimed: what compress_conversation_context keeps of the tool
\* messages of a history of more than four messages is the last assistant
\* message with tool calls followed by the tool results answering it.
C26_LastTurnKeptWhole ==
    [][(/\ hist.compressions = 0
        /\ hist'.compressions = 1
        /\ Len(payload.messages) > CompressMinMessages)
          => LET kept == SelectSeq(payload'.messages, IsToolMessage)
                 turn == LastTurn(payload.messages)
             IN /\ Len(kept) = Len(turn)
                /\ \A i \in 1..Len(kept) :
                      /\ kept[i].role = turn[i].role
                      /\ kept[i].tool_calls = turn[i].tool_calls
                      /\ kept[i].tool_call_id = turn[i].tool_call_id]_vars

(***************************************************************************)
(* SpecTruncate: the truncation compress_conversation_context applies to   *)
(* the content of a tool message, on contents given line by line: each     *)
(* line by its number of characters and by whether it holds one of the key *)
(* words.  A content the loop appended is json.dumps(result), one line.    *)
(***************************************************************************)
TruncateAbove == 1000

ScannedLines == 20

KeyLinesKept == 10

LineLengths == {0, 40, 600, 1001}

ContentLine == [len : LineLengths, key : BOOLEAN]

ToolContents == UNION {[1..n -> ContentLine] : n \in 1..MaxLines}

FirstN(seq, n) == IF Len(seq) <= n THEN seq ELSE SubSeq(seq, 1, n)

\* len('\n'.join(lines))
RECURSIVE JoinedLength(_)
JoinedLength(lines) ==
    IF lines = <<>> THEN 0
    ELSE IF Len(lines) = 1 THEN lines[1].len
    ELSE lines[1].len + 1 + JoinedLength(Tail(lines))

\* The body of the loop over recent_tools for a tool message: the lines that
\* make the new content, and whether the truncation marker follows them
compress_tool_content(original_content) ==
    IF JoinedLength(original_content) > TruncateAbove
    THEN LET key_lines == SelectSeq(FirstN(original_content, ScannedLines),
                                    LAMBDA line : line.key)
         IN [key_lines_content |-> FirstN(key_lines, KeyLinesKept), truncated |-> TRUE]
    ELSE [key_lines_content |-> original_content, truncated |-> FALSE]

CompressToolContent ==
    /\ last.op = "none"
    /\ LET r == compress_tool_content(last.original_content)
       IN last' = [last EXCEPT !.op = "compress_tool_content",
                               !.key_lines_content = r.key_lines_content,
                               !.truncated = r.truncated]
    /\ UNCHANGED <<mcp, loopVars>>

InitTruncate ==
    /\ mcp = InitMcp
    /\ last \in {[NoCall EXCEPT !.original_content = c] : c \in ToolContents}
    /\ IdleLoop

NextTruncate == CompressToolContent

SpecTruncate == InitTruncate /\ [][NextTruncate]_vars

\* C27 as claimed: a tool result of more than 1000 characters is replaced by
\* its key lines and the truncation marker, and the key lines kept are
\* strictly shorter than the result was.
C27_KeptContentShorter ==
    (/\ last.op = "compress_tool_content"
     /\ JoinedLength(last.original_content) > TruncateAbove)
        => (/\ last.truncated
            /\ JoinedLength(last.key_lines_content)
                   < JoinedLength(last.original_content))

(***************************************************************************)
(* SpecSearch: search_files over the files under backend/ and ui/          *)
(***************************************************************************)
\* A searched file is the sequence of its lines, each line being whether the
\* pattern occurs in it. The files under one root are in glob order.
SearchedFiles ==
    {[i \in 1..MaxSearchLines |-> i \in hits] :
        hits \in {{}, {MaxSearchLines}, 1..MaxSearchLines}}

RootFiles == UNION {[1..n -> SearchedFiles] : n \in 0..MaxRootFiles}

SearchRoots == <<"backend", "ui">>

\* [(i+1, line.strip()) for i, line in enumerate(lines) if pattern in line][:3]
line_matches(lines) ==
    FirstN(SelectSeq([i \in 1..Len(lines) |-> IF lines[i] THEN i ELSE 0],
                     LAMBDA n : n > 0),
           LineMatchesKept)

\* The inner loop of search_files: the files of one root from index k on
RECURSIVE search_root(_, _, _, _, _)
search_root(root, files, k, max_matches, matches) ==
    IF k > Len(files) THEN matches
    ELSE IF \E i \in 1..Len(files[k]) : files[k][i]
    THEN LET appended == Append(matches, [file |-> <<root, k>>,
                                          matches |-> line_matches(files[k])])
         IN IF Len(appended) >= max_matches THEN appended
            ELSE search_root(root, files, k + 1, max_matches, appended)
    ELSE search_root(root, files, k + 1, max_matches, matches)

\* The outer loop of search_files: the roots from index p on
RECURSIVE search_paths_from(_, _, _, _)
search_paths_from(search_paths, p, max_matches, matches) ==
    IF p > Len(search_paths) THEN matches
    ELSE search_paths_from(search_paths, p + 1, max_matches,
                           search_root(SearchRoots[p], search_paths[p], 1,
                                       max_matches, matches))

\* search_files(pattern, file_type, max_matches): the "matches" of its result
search_files(search_paths, max_matches) ==
    search_paths_from(search_paths, 1, max_matches, <<>>)

SearchFiles ==
    /\ last.op = "none"
    /\ last' = [last EXCEPT !.op = "search_files",
                            !.matches = search_files(last.search_paths,
                                                     last.max_matches)]
    /\ UNCHANGED <<mcp, loopVars>>

InitSearch ==
    /\ mcp = InitMcp
    /\ last \in {[NoCall EXCEPT !.search_paths = <<backend, ui>>,
                                !.max_matches = max_matches] :
                    backend \in RootFiles, ui \in RootFiles,
                    max_matches \in 1..MaxMatchesArg}
    /\ IdleLoop

NextSearch == SearchFiles

SpecSearch == InitSearch /\ [][NextSearch]_vars

\* C33 as claimed: search_files returns at most max_matches files over both
\* roots, and at most 3 matching lines for each.
C33_AtMostMaxMatches ==
    last.op = "search_files"
        => (/\ Len(last.matches) <= last.max_matches
            /\ \A i \in 1..Len(last.matches) :
                   Len(last.matches[i].matches) <= LineMatchesKept)

(***************************************************************************)
(* Tool schemas and dispatch                                               *)
(***************************************************************************)
\* load_base_tools: the names listed in base-tools.json that this model calls
BaseTools ==
    {"read_file", "create_dynamic_tool", "create_sandbox", "run_in_sandbox",
     "cleanup_sandbox", "consult_friend_ai"}

load_base_tools == {[name |-> n, description |-> "base"] : n \in BaseTools}

\* get_mcp_tools_schema
get_mcp_tools_schema(m) == load_base_tools \cup get_tool_schemas(m)

\* A requested invocation: the function name, the state of its argument text
\*   ok       parses, and holds every parameter the function reads
\*   missing  parses, and lacks a parameter the function reads
\*   garbled  does not parse, and no recovery strategy applies
\* and the parameter values it carries when they are present.
Call(name, args) ==
    [name |-> name, args |-> args, id |-> NoId,
     tool_name |-> "tool_b", tool_code |-> SrcUnser, description |-> "d1",
     sandbox_name |-> "sb1", sandbox_type |-> "temp_directory",
     operation_type |-> "command", force |-> FALSE]

\* The invocations the model's responses draw from. tool_b is an unknown tool
\* until create_dynamic_tool has registered it.
ToolCalls ==
    {Call("read_file", "ok"), Call("read_file", "missing"), Call("read_file", "garbled"),
     Call("create_dynamic_tool", "ok"), Call("tool_b", "ok"),
     Call("consult_friend_ai", "ok")}

\* What make_api_call_with_retry of friend-ai.py prints when the inference
\* service answers the consultation with a rate limit: a line of text, and no
\* JSON document
FriendAiRateLimitText ==
    [json |-> "not_json", analysis |-> "friend_ai_rate_limit", changes |-> None]

\* consult_friend_ai: what the consultation writes to the primary output.
\* rate_limited: the first answer to the friend's inference request is a 429.
consult_friend_ai_prints(rate_limited) ==
    IF rate_limited THEN <<FriendAiRateLimitText>> ELSE <<>>

\* What read_file returns in the conversation loop of this model: the content
\* of a short file (long tool results are the inputs of SpecCompress)
ReadFileContents == {"small"}

Payload(m, status) ==
    [mcp |-> m, outcome |-> "result",
     content |-> IF status \in {"error", "warning"} THEN "error" ELSE "small"]

\* handle_function_call: the registry after the call, how the call ended
\* (result: a value was returned; raises: an exception left the function) and
\* the serialized result. file_content and success are what the file system
\* and the sandboxed command answer.
handle_function_call(m, call, file_content, success) ==
    IF call.name \in BaseTools /\ call.args = "missing"
    THEN [mcp |-> m, outcome |-> "raises", content |-> None]
    ELSE CASE call.name = "read_file" ->
                [mcp |-> m, outcome |-> "result", content |-> file_content]
           [] call.name = "create_dynamic_tool" ->
                LET r == create_dynamic_tool(m, call.tool_name, call.tool_code,
                                             call.description)
                IN Payload(r.mcp, r.status)
           [] call.name = "create_sandbox" ->
                LET r == create_sandbox(m, call.sandbox_name, call.sandbox_type)
                IN Payload(r.mcp, r.status)
           [] call.name = "run_in_sandbox" ->
                LET r == run_in_sandbox(m, call.sandbox_name, call.operation_type,
                                        NoOperationData, success)
                IN Payload(r.mcp, r.status)
           [] call.name = "cleanup_sandbox" ->
                LET r == cleanup_sandbox(m, call.sandbox_name, call.force)
                IN Payload(r.mcp, r.status)
           [] call.name = "consult_friend_ai" -> Payload(m, "success")
           [] call.name \notin BaseTools /\ call.name \in DOMAIN m.dynamic_tools ->
                LET r == call_dynamic_tool(m, call.name, call.args = "ok")
                IN IF r = "unserializable"
                   THEN [mcp |-> m, outcome |-> "unserializable", content |-> None]
                   ELSE Payload(m, r)
           [] OTHER -> [mcp |-> m, outcome |-> "result", content |-> "unknown_function"]

(***************************************************************************)
(* Return values of propose_changes                                        *)
(***************************************************************************)
Failure(analysis) == [json |-> "object", analysis |-> analysis, changes |-> "empty"]

\* What json.loads gives for a final response that parses: a proposal, or
\* JSON of another shape
ParsedFinals ==
    {[json |-> "object", analysis |-> "from_model", changes |-> "empty"],
     [json |-> "object", analysis |-> "from_model", changes |-> "nonempty"],
     [json |-> "object", analysis |-> "from_model", changes |-> None],
     [json |-> "array", analysis |-> None, changes |-> None]}

(***************************************************************************)
(* SpecNames: tools are synthesized under the name of a built-in and under *)
(* a free name, and requested by name                                      *)
(***************************************************************************)
SynthesizedNames == {"read_file", "tool_a"}

\* create_dynamic_tool with a source that binds a function of that name
CreateToolNamed ==
    \E tool_name \in SynthesizedNames, body \in {"v1", "v2"}, description \in Descriptions :
        LET tool_code == [fn |-> tool_name, params |-> ExampleSignature, body |-> body]
            r == create_dynamic_tool(mcp, tool_name, tool_code, description)
        IN /\ mcp' = r.mcp
           /\ last' = [NoCall EXCEPT !.op = "create_dynamic_tool", !.name = tool_name,
                                     !.code = tool_code, !.description = description,
                                     !.status = r.status, !.cached = r.cached,
                                     !.compiled = r.compiled]
           /\ UNCHANGED loopVars

\* handle_function_call for a requested name; the file system answers a
\* read_file with "file_text". status is the serialized result.
HandleFunctionCall ==
    \E function_name \in SynthesizedNames \cup {"tool_b"} :
        LET r == handle_function_call(mcp, Call(function_name, "ok"), "file_text", TRUE)
        IN /\ mcp' = r.mcp
           /\ last' = [NoCall EXCEPT !.op = "handle_function_call",
                                     !.name = function_name, !.status = r.content]
           /\ UNCHANGED loopVars

InitNames == mcp = InitMcp /\ last = NoCall /\ IdleLoop

NextNames == CreateToolNamed \/ HandleFunctionCall

SpecNames == InitNames /\ [][NextNames]_vars

\* C22 as claimed: the schema list offered to the inference service never
\* holds two entries of the same name, and a request for the name of a
\* synthesized tool reaches that tool.
C22_UniqueToolNames ==
    /\ \A s1, s2 \in get_mcp_tools_schema(mcp) : s1.name = s2.name => s1 = s2
    /\ (last.op = "handle_function_call" /\ last.name \in DOMAIN mcp.dynamic_tools)
          => last.status # "file_text"

(***************************************************************************)
(* SpecSessions: two processes of the program run on one repository, each  *)
(* with its own CodeExplorerMCP object (self.sandboxes is per object) and  *)
(* both on the one .ai_sandboxes directory.  Session 1 is mcp, session 2   *)
(* is peer; the directories are kept in mcp.  Each call is one step: the   *)
(* program is single-threaded, and the calls of two processes interleave.  *)
(***************************************************************************)
Sessions == {1, 2}

\* The sandbox name each session uses
SessionSandbox(s) == IF s = 1 THEN "sb1" ELSE "sb2"

\* The CodeExplorerMCP object a session works on: its own registries, and the
\* directories both share
SessionMcp(s) ==
    IF s = 1 THEN mcp
    ELSE [mcp EXCEPT !.dynamic_tools = peer.dynamic_tools,
                     !.sandboxes = peer.sandboxes]

\* The state after session s has left its object as m
SessionReturns(s, m) ==
    IF s = 1
    THEN mcp' = m /\ UNCHANGED peer
    ELSE /\ mcp' = [m EXCEPT !.dynamic_tools = mcp.dynamic_tools,
                             !.sandboxes = mcp.sandboxes]
         /\ peer' = [peer EXCEPT !.dynamic_tools = m.dynamic_tools,
                                 !.sandboxes = m.sandboxes]

\* The "operation" strings of the file operations a session is asked to run:
\* create a file in its workspace, create a file under a path that climbs
\* out of the workspace into the directory of the other sandbox, read a file
SessionFileOperations(s) ==
    {[key |-> "create_file", path |-> FilePath(0, None, "out.txt")],
     [key |-> "create_file", path |-> FilePath(2, SessionSandbox(3 - s), "out.txt")],
     [key |-> "read_file", path |-> FilePath(0, None, "out.txt")]}

SessionCreateSandbox ==
    \E s \in Sessions, sandbox_type \in SandboxTypes :
        LET r == create_sandbox(SessionMcp(s), SessionSandbox(s), sandbox_type)
        IN /\ SessionReturns(s, r.mcp)
           /\ last' = [NoCall EXCEPT !.op = "create_sandbox", !.session = s,
                                     !.name = SessionSandbox(s), !.status = r.status]
           /\ UNCHANGED runVars

SessionRunInSandbox ==
    \E s \in Sessions, operation_type \in {"command", "file_operation"},
       success \in BOOLEAN :
        \E operation_data \in IF operation_type = "file_operation"
                               THEN SessionFileOperations(s)
                               ELSE {NoOperationData} :
            LET m == SessionMcp(s)
                r == run_in_sandbox(m, SessionSandbox(s), operation_type,
                                    operation_data, success)
            IN /\ SessionSandbox(s) \in DOMAIN m.sandboxes
                    => Len(m.sandboxes[SessionSandbox(s)].operations) < MaxOps
               /\ SessionReturns(s, r.mcp)
               /\ last' = [NoCall EXCEPT !.op = "run_in_sandbox", !.session = s,
                                         !.name = SessionSandbox(s),
                                         !.operation_type = operation_type,
                                         !.operation_data = operation_data,
                                         !.success = success, !.status = r.status]
               /\ UNCHANGED runVars

SessionInspectSandbox ==
    \E s \in Sessions :
        LET r == inspect_sandbox(SessionMcp(s), SessionSandbox(s))
        IN /\ SessionReturns(s, r.mcp)
           /\ last' = [NoCall EXCEPT !.op = "inspect_sandbox", !.session = s,
                                     !.name = SessionSandbox(s), !.status = r.status]
           /\ UNCHANGED runVars

SessionCleanupSandbox ==
    \E s \in Sessions, force \in BOOLEAN :
        LET r == cleanup_sandbox(SessionMcp(s), SessionSandbox(s), force)
        IN /\ SessionReturns(s, r.mcp)
           /\ last' = [NoCall EXCEPT !.op = "cleanup_sandbox", !.session = s,
                                     !.name = SessionSandbox(s), !.force = force,
                                     !.status = r.status]
           /\ UNCHANGED runVars

InitSessions == mcp = InitMcp /\ last = NoCall /\ IdleLoop

NextSessions ==
    \/ SessionCreateSandbox
    \/ SessionRunInSandbox
    \/ SessionInspectSandbox
    \/ SessionCleanupSandbox

SpecSessions == InitSessions /\ [][NextSessions]_vars

\* What a session owns of the sandbox manager: its registry entry with the
\* Operation list, and its directory with the files in it
SessionOwns(s, m, p) ==
    LET sandboxes == IF s = 1 THEN m.sandboxes ELSE p.sandboxes
    IN [entry |-> IF SessionSandbox(s) \in DOMAIN sandboxes
                  THEN <<sandboxes[SessionSandbox(s)]>> ELSE <<>>,
        directory |-> SessionSandbox(s) \in m.sandbox_dir,
        files |-> {f \in m.sandbox_files : f[1] = SessionSandbox(s)}]

\* C23 as claimed: a call of one session leaves the registry entry, the
\* Operation list and the directory of the other session as they were.
C23_SessionsNeverInterfere ==
    [][\A s \in Sessions :
          last'.session = s
              => SessionOwns(3 - s, mcp', peer') = SessionOwns(3 - s, mcp, peer)]_vars

(***************************************************************************)
(* SpecCache: the two processes synthesize tools under one name, on the    *)
(* one .ai_tools_cache directory.  Both have started on an empty cache     *)
(* (_load_cached_tools found nothing).  A create_dynamic_tool call is the  *)
(* steps that touch the directory or the registry: the cache check, the    *)
(* exec with the registration, the open of the cache file and the dump.    *)
(* The position of session 1 in its call is pc and the call it is in is    *)
(* the head of pending; those of session 2 are peer.pc and peer.pending.   *)
(***************************************************************************)
SharedToolName == "tool_a"

SharedDescription == "d1"

SharedSources == {SrcA1, SrcA2}

SessionPc(s) == IF s = 1 THEN pc ELSE peer.pc

SessionPending(s) == IF s = 1 THEN pending ELSE peer.pending

\* The state after a step of session s that leaves its object as m, its
\* position as to_pc and its call as to_pending
SessionMoves(s, m, to_pc, to_pending) ==
    /\ IF s = 1
       THEN /\ mcp' = m
            /\ pc' = to_pc
            /\ pending' = to_pending
            /\ UNCHANGED peer
       ELSE /\ mcp' = [m EXCEPT !.dynamic_tools = mcp.dynamic_tools,
                                !.sandboxes = mcp.sandboxes]
            /\ peer' = [dynamic_tools |-> m.dynamic_tools, sandboxes |-> m.sandboxes,
                        pc |-> to_pc, pending |-> to_pending]
            /\ UNCHANGED <<pc, pending>>
    /\ UNCHANGED <<friend, max_iterations, api, iteration, payload, proposed, stdout,
                   exit_code, hist>>

\* What create_dynamic_tool returns to session s
SessionCreateReturns(s, tool_code, status, cached) ==
    [NoCall EXCEPT !.op = "create_dynamic_tool", !.session = s,
                   !.name = SharedToolName, !.code = tool_code,
                   !.description = SharedDescription,
                   !.status = status, !.cached = cached, !.compiled = ~cached]

\* create_dynamic_tool, to the end of the cache check: a hit returns success
SessionCacheCheck ==
    \E s \in Sessions, tool_code \in SharedSources :
        /\ SessionPc(s) \in {"idle", "returned"}
        /\ IF _load_cached_tool(SessionMcp(s), SharedToolName, tool_code) # <<>>
           THEN /\ SessionMoves(s, SessionMcp(s), "returned",
                                <<[code |-> tool_code, cached |-> TRUE]>>)
                /\ last' = SessionCreateReturns(s, tool_code, "success", TRUE)
           ELSE /\ SessionMoves(s, SessionMcp(s), "compile",
                                <<[code |-> tool_code, cached |-> FALSE]>>)
                /\ UNCHANGED last

\* create_dynamic_tool, from the exec to the registration
SessionCompile ==
    \E s \in Sessions :
        /\ SessionPc(s) = "compile"
        /\ LET tool_code == Head(SessionPending(s)).code
           IN IF ExecRaises(tool_code) \/ ~InSafeGlobals(SharedToolName, tool_code)
              THEN /\ SessionMoves(s, SessionMcp(s), "idle", <<>>)
                   /\ last' = SessionCreateReturns(s, tool_code, "error", FALSE)
              ELSE /\ SessionMoves(s, RegisterTool(SessionMcp(s), SharedToolName,
                                                   tool_code, SharedDescription),
                                   "open", SessionPending(s))
                   /\ UNCHANGED last

\* _cache_tool, to the open of the cache file
SessionCacheOpen ==
    \E s \in Sessions :
        /\ SessionPc(s) = "open"
        /\ SessionMoves(s, _cache_tool_open(SessionMcp(s), SharedToolName,
                                            Head(SessionPending(s)).code),
                        "dump", SessionPending(s))
        /\ UNCHANGED last

\* _cache_tool, from the dump on, and the return of create_dynamic_tool
SessionCacheDump ==
    \E s \in Sessions :
        /\ SessionPc(s) = "dump"
        /\ SessionMoves(s, _cache_tool_dump(SessionMcp(s), SharedToolName,
                                            Head(SessionPending(s)).code,
                                            SharedDescription),
                        "returned", SessionPending(s))
        /\ last' = SessionCreateReturns(s, Head(SessionPending(s)).code,
                                        "success", FALSE)

\* call_dynamic_tool of a session that is not in a create_dynamic_tool call
SessionCallDynamicTool ==
    \E s \in Sessions :
        /\ SessionPc(s) \in {"idle", "returned"}
        /\ last' = [NoCall EXCEPT !.op = "call_dynamic_tool", !.session = s,
                                  !.name = SharedToolName, !.success = TRUE,
                                  !.status = call_dynamic_tool(SessionMcp(s),
                                                               SharedToolName, TRUE)]
        /\ UNCHANGED <<mcp, loopVars>>

InitCache == mcp = InitMcp /\ last = NoCall /\ IdleLoop

NextCache ==
    \/ SessionCacheCheck
    \/ SessionCompile
    \/ SessionCacheOpen
    \/ SessionCacheDump
    \/ SessionCallDynamicTool

SpecCache == InitCache /\ [][NextCache]_vars

\* The tool of the shared name is registered in session s with this source
SessionRegistered(s, tool_code) ==
    /\ SharedToolName \in DOMAIN SessionMcp(s).dynamic_tools
    /\ SessionMcp(s).dynamic_tools[SharedToolName].code = tool_code

\* C24 as claimed: when the latest synthesis of both sessions has returned
\* success for the same source, the cache holds the one entry of that name and
\* hash with that source, and the tool is registered and invocable in both
\* sessions.
C24_SessionsAgree ==
    (/\ pc = "returned"
     /\ peer.pc = "returned"
     /\ Head(pending).code = Head(peer.pending).code)
        => LET tool_code == Head(pending).code
           IN /\ _load_cached_tool(mcp, SharedToolName, tool_code) # <<>>
              /\ _load_cached_tool(mcp, SharedToolName, tool_code)[1].code = tool_code
              /\ \A s \in Sessions :
                    /\ SessionRegistered(s, tool_code)
                    /\ call_dynamic_tool(SessionMcp(s), SharedToolName, TRUE) # "error"

(***************************************************************************)
(* Spec: one run of the program, from main to its exit                     *)
(***************************************************************************)
\* main: argument count, credential and error log, then the proposer
Main ==
    /\ pc = "main"
    /\ \E argv_ok \in BOOLEAN, api_key \in BOOLEAN,
          log \in {"missing", "empty", "unreadable", "text"} :
         IF ~argv_ok \/ ~api_key
         THEN /\ pc' = "exit" /\ exit_code' = "1"
              /\ hist' = [hist EXCEPT !.fatal = IF argv_ok THEN "no_key" ELSE "usage"]
              /\ UNCHANGED payload
         ELSE IF log = "unreadable"
         THEN /\ pc' = "exit" /\ exit_code' = "traceback"
              /\ hist' = [hist EXCEPT !.fatal = "log_unreadable"]
              /\ UNCHANGED payload
         ELSE IF log \in {"missing", "empty"}
         THEN /\ pc' = "exit" /\ exit_code' = "1"
              /\ hist' = [hist EXCEPT !.fatal = "no_log"]
              /\ UNCHANGED payload
         ELSE /\ pc' = "loop"
              /\ payload' = [messages |-> <<SystemMessage, InitialPrompt>>,
                             tools |-> get_mcp_tools_schema(mcp)]
              /\ UNCHANGED <<exit_code, hist>>
    /\ UNCHANGED <<mcp, last, peer, friend, max_iterations, api, iteration, pending, proposed, stdout>>

\* The loop's head up to the request: the history is compressed, directed
\* and sanitized
BeginIteration ==
    /\ pc = "loop"
    /\ iteration < max_iterations
    /\ iteration' = iteration + 1
    /\ \E terms_found \in BOOLEAN, available \in BOOLEAN :
          /\ payload' = [payload EXCEPT !.messages =
                            prepare_messages(@, iteration + 1, terms_found, available)]
          /\ hist' = [hist EXCEPT !.turn_ids = <<>>, !.skipped = {}, !.tool = NoTool,
                                  !.rag = IF iteration + 1 > RagAfterIteration
                                          THEN [terms_found |-> terms_found,
                                                available |-> available]
                                          ELSE @]
    /\ pc' = "call"
    /\ UNCHANGED <<mcp, last, peer, friend, max_iterations, api, pending, proposed, stdout, exit_code>>

\* The loop ends on its bound
MaxIterationsReached ==
    /\ pc = "loop"
    /\ iteration >= max_iterations
    /\ proposed' = Failure("Max iterations reached")
    /\ hist' = [hist EXCEPT !.fatal = "max_iterations"]
    /\ pc' = "return"
    /\ UNCHANGED <<mcp, last, peer, friend, max_iterations, api, iteration, payload, pending, stdout,
                   exit_code>>

Sent(h) == [h EXCEPT !.calls = @ + 1, !.unknown = {}]

\* What the service answers in the conversation loop of this model
LoopAnswers == {Answer("200", "none"), Answer("500", "none"),
                Answer("exception", "none"), Answer("429", "none")}

\* requests.post raises, or the body of a 200 response lacks the fields read
TransportFault ==
    /\ pc = "call"
    /\ \E answers \in [1..DefaultMaxRetries -> LoopAnswers] :
         LET call == ApiCall(answers, DefaultMaxRetries, hist.calls + 1)
         IN /\ call.raised \/ call.status = "200"
            /\ api' = [call EXCEPT !.answers = SubSeq(answers, 1, call.sent)]
    /\ proposed' = Failure("Error occurred")
    /\ hist' = [Sent(hist) EXCEPT !.fatal = "transport", !.only_tools = FALSE]
    /\ pc' = "return"
    /\ UNCHANGED <<mcp, last, peer, friend, max_iterations, iteration, payload, pending, stdout,
                   exit_code>>

\* A status other than 200 (a rate limit that outlasted the retries included)
HttpError ==
    /\ pc = "call"
    /\ \E answers \in [1..DefaultMaxRetries -> LoopAnswers] :
         LET call == ApiCall(answers, DefaultMaxRetries, hist.calls + 1)
         IN /\ ~call.raised /\ call.status # "200"
            /\ api' = [call EXCEPT !.answers = SubSeq(answers, 1, call.sent)]
    /\ proposed' = Failure("API call failed")
    /\ hist' = [Sent(hist) EXCEPT !.fatal = "http", !.only_tools = FALSE]
    /\ pc' = "return"
    /\ UNCHANGED <<mcp, last, peer, friend, max_iterations, iteration, payload, pending, stdout,
                   exit_code>>

\* The response requests tool invocations
ResponseToolCalls ==
    /\ pc = "call"
    /\ \E k \in 1..MaxToolCalls : \E calls \in [1..k -> ToolCalls] :
         LET tool_calls == [i \in 1..k |-> [calls[i] EXCEPT !.id = <<iteration, i>>]]
             ids == [i \in 1..k |-> <<iteration, i>>]
         IN /\ payload' = [payload EXCEPT !.messages = Append(@, AssistantToolCalls(ids))]
            /\ pending' = tool_calls
            /\ hist' = [Sent(hist) EXCEPT !.turn_start = Len(payload.messages),
                                          !.turn_ids = ids]
    /\ pc' = "tools"
    /\ UNCHANGED <<mcp, last, peer, friend, max_iterations, api, iteration, proposed, stdout, exit_code>>

\* The arguments of the next tool call do not parse and cannot be recovered:
\* the call is skipped
SkipToolCall ==
    /\ pc = "tools"
    /\ pending # <<>>
    /\ Head(pending).args = "garbled"
    /\ pending' = Tail(pending)
    /\ hist' = [hist EXCEPT !.tool = [id |-> Head(pending).id, outcome |-> "skipped"],
                            !.skipped = @ \cup {Head(pending).id}]
    /\ pc' = IF Tail(pending) = <<>> THEN "loop" ELSE "tools"
    /\ UNCHANGED <<mcp, last, peer, friend, max_iterations, api, iteration, payload, proposed, stdout,
                   exit_code>>

\* The next tool call is executed and its result appended
ExecToolCall ==
    /\ pc = "tools"
    /\ pending # <<>>
    /\ Head(pending).args # "garbled"
    /\ \E file_content \in ReadFileContents, success \in BOOLEAN,
          rate_limited \in BOOLEAN :
         LET tool_call == Head(pending)
             r == handle_function_call(mcp, tool_call, file_content, success)
         IN /\ r.outcome = "result"
            /\ rate_limited => /\ tool_call.name = "consult_friend_ai"
                               /\ Len(stdout) < MaxDiagnostics
            /\ stdout' = IF tool_call.name = "consult_friend_ai"
                         THEN stdout \o consult_friend_ai_prints(rate_limited)
                         ELSE stdout
            /\ mcp' = r.mcp
            /\ payload' = [payload EXCEPT !.messages =
                              Append(@, ToolResult(tool_call.id, r.content))]
            /\ hist' = [hist EXCEPT !.tool =
                           [id |-> tool_call.id,
                            outcome |-> IF r.content = "error" THEN "error_result"
                                        ELSE IF r.content = "unknown_function"
                                        THEN "unknown_function"
                                        ELSE "result"],
                                    !.unknown = IF r.content = "unknown_function"
                                                THEN @ \cup {tool_call.id} ELSE @]
    /\ pending' = Tail(pending)
    /\ pc' = IF Tail(pending) = <<>> THEN "loop" ELSE "tools"
    /\ UNCHANGED <<last, peer, friend, max_iterations, api, iteration, proposed, exit_code>>

\* handle_function_call raises, or json.dumps cannot encode what it returned:
\* the exception reaches the handler around the whole turn
ToolCallRaises ==
    /\ pc = "tools"
    /\ pending # <<>>
    /\ Head(pending).args # "garbled"
    /\ \E file_content \in ReadFileContents, success \in BOOLEAN :
         LET tool_call == Head(pending)
             r == handle_function_call(mcp, tool_call, file_content, success)
         IN /\ r.outcome \in {"raises", "unserializable"}
            /\ mcp' = r.mcp
            /\ hist' = [hist EXCEPT !.tool = [id |-> tool_call.id, outcome |-> r.outcome],
                                    !.fatal = "tool_exception"]
    /\ proposed' = Failure("Error occurred")
    /\ pending' = <<>>
    /\ pc' = "return"
    /\ UNCHANGED <<last, peer, friend, max_iterations, api, iteration, payload, stdout, exit_code>>

\* A final response (finish_reason stop, no tool calls) whose content parses
ResponseFinal ==
    /\ pc = "call"
    /\ \E changes_data \in ParsedFinals : proposed' = changes_data
    /\ hist' = [Sent(hist) EXCEPT !.only_tools = FALSE]
    /\ pc' = "return"
    /\ UNCHANGED <<mcp, last, peer, friend, max_iterations, api, iteration, payload, pending, stdout,
                   exit_code>>

\* A final response whose content is not JSON
ResponseMalformed ==
    /\ pc = "call"
    /\ proposed' = Failure("JSON parse error")
    /\ hist' = [Sent(hist) EXCEPT !.malformed = @ + 1, !.fatal = "malformed",
                                  !.only_tools = FALSE]
    /\ pc' = "return"
    /\ UNCHANGED <<mcp, last, peer, friend, max_iterations, api, iteration, payload, pending, stdout,
                   exit_code>>

\* No tool calls and a finish_reason other than stop: the loop goes round
ResponseUnfinished ==
    /\ pc = "call"
    /\ hist' = [Sent(hist) EXCEPT !.only_tools = FALSE]
    /\ pc' = "loop"
    /\ UNCHANGED <<mcp, last, peer, friend, max_iterations, api, iteration, payload, pending, proposed,
                   stdout, exit_code>>

\* main prints what propose_changes returned
Output ==
    /\ pc = "return"
    /\ stdout' = Append(stdout, proposed)
    /\ exit_code' = "0"
    /\ pc' = "exit"
    /\ UNCHANGED <<mcp, last, peer, friend, max_iterations, api, iteration, payload, pending, proposed,
                   hist>>

Init ==
    /\ mcp = InitMcp
    /\ last = NoCall
    /\ pc = "main"
    /\ max_iterations \in 1..MaxIterations
    /\ api = NoApi
    /\ peer = NoPeer
    /\ friend = NoFriend
    /\ iteration = 0
    /\ payload = [messages |-> <<>>, tools |-> {}]
    /\ pending = <<>>
    /\ proposed = NotReturned
    /\ stdout = <<>>
    /\ exit_code = None
    /\ hist = NoHist

Next ==
    \/ Main
    \/ BeginIteration
    \/ MaxIterationsReached
    \/ TransportFault
    \/ HttpError
    \/ ResponseToolCalls
    \/ SkipToolCall
    \/ ExecToolCall
    \/ ToolCallRaises
    \/ ResponseFinal
    \/ ResponseMalformed
    \/ ResponseUnfinished
    \/ Output

Spec == Init /\ [][Next]_vars

(***************************************************************************)
(* Properties of the run                                                   *)
(***************************************************************************)
\* C1 as claimed: when every response requested a tool invocation, the loop
\* ends only after exactly max_iterations inference calls, failed, with an
\* empty changes list.
C1_ExactlyMaxIterationsTurns ==
    (proposed # NotReturned /\ hist.only_tools)
        => (/\ hist.calls = max_iterations
            /\ hist.fatal # ""
            /\ proposed.changes = "empty")

\* C2 as claimed: a tool invocation that failed leaves the session running,
\* and its failure is the content of a tool-result message with its id.
C2_ToolFailureNeverFatal ==
    hist.tool.outcome \in {"error_result", "unknown_function", "raises", "unserializable"}
        => (/\ pc \in {"tools", "loop"}
            /\ hist.fatal = ""
            /\ payload.messages[Len(payload.messages)].role = "tool"
            /\ payload.messages[Len(payload.messages)].tool_call_id = hist.tool.id)

\* C3 as claimed: a session fails on malformed output only at the second
\* final response that does not parse, after exactly one corrective re-prompt.
C3_OneCorrectiveReprompt ==
    hist.fatal = "malformed" => (hist.malformed = 2 /\ hist.reprompts = 1)

\* C4 as claimed: in the history of every request sent, each tool-result
\* message comes after an assistant message requesting its correlation id.
C4_NoOrphanedToolResult ==
    pc = "call"
        => \A i \in 1..Len(payload.messages) :
              payload.messages[i].role = "tool"
                => \E j \in 1..(i - 1) :
                      /\ payload.messages[j].role = "assistant"
                      /\ \E n \in 1..Len(payload.messages[j].tool_calls) :
                            payload.messages[j].tool_calls[n]
                                = payload.messages[i].tool_call_id

C6_SchemaListCurrent ==
    pc = "call" => payload.tools = get_mcp_tools_schema(mcp)

\* C13 as claimed: at every point of a run nothing is on the primary output
\* but, once main has printed it, the one JSON document of the proposal.
C13_OnlyFinalJsonOnStdout ==
    /\ Len(stdout) <= 1
    /\ \A i \in 1..Len(stdout) : stdout[i] = proposed /\ stdout[i].json # "not_json"

\* C14 as claimed: propose_changes returns what the model wrote, and the
\* session is completed, only when that content is an object with a textual
\* analysis and a list of changes.
C14_CompletedOnlyOnProposal ==
    (proposed # NotReturned /\ hist.fatal = "")
        => (/\ proposed.json = "object"
            /\ proposed.analysis = "from_model"
            /\ proposed.changes \in {"empty", "nonempty"})

\* C15: when every answer to the requests of one make_api_call_with_retry
\* call is a rate limit, the function has sent DefaultMaxRetries requests and
\* waited only between them, it has returned the last 429 response, and the
\* session has ended in that inference turn with "API call failed" and an
\* empty changes list.
C15_RateLimitExhausted ==
    (api.done /\ \A i \in 1..api.sent : api.answers[i].status = "429")
        => (/\ api.sent = DefaultMaxRetries
            /\ Len(api.waits) = DefaultMaxRetries - 1
            /\ api.status = "429"
            /\ ~api.raised
            /\ pc \in {"return", "exit"}
            /\ hist.fatal = "http"
            /\ hist.calls = api.turn
            /\ proposed = Failure("API call failed")
            /\ proposed.changes = "empty")

\* C15 witness: the second inference call met rate limits only; the process
\* has ended and the failure object is its output.
C15_Witness ==
    /\ pc = "exit"
    /\ api.done
    /\ api.turn = 2
    /\ api.sent = DefaultMaxRetries
    /\ api.status = "429"
    /\ \A i \in 1..api.sent : api.answers[i].status = "429"
    /\ hist.calls = 2
    /\ stdout = <<Failure("API call failed")>>

\* The "Unknown function" results of the last tool turn are in a history
UnknownResultsIn(messages) ==
    \A id \in hist.unknown :
       \E i \in 1..Len(messages) : messages[i] = ToolResult(id, "unknown_function")

\* The step that handles a request for an unknown tool appends the "Unknown
\* function" result under the request's id and goes on with the turn
UnknownToolAnswered ==
    hist'.tool.outcome = "unknown_function" /\ hist'.tool # hist.tool
       => /\ payload'.messages
                = Append(payload.messages, ToolResult(hist'.tool.id, "unknown_function"))
          /\ pc' \in {"tools", "loop"}
          /\ hist'.fatal = ""
          /\ UNCHANGED <<stdout, proposed, exit_code>>

ListedFatal == {"no_log", "no_key", "transport", "http", "malformed", "max_iterations"}

\* C10 as claimed: the process never ends on an uncaught exception, and when
\* it ends on one of the listed fatal conditions, exactly one JSON object has
\* been written to the primary output, with an empty changes list and an
\* analysis that names the condition.
C10_AlwaysOneJsonObject ==
    pc = "exit"
        => /\ exit_code # "traceback"
           /\ hist.fatal \in ListedFatal
                => (/\ Len(stdout) = 1
                    /\ stdout[1].json = "object"
                    /\ stdout[1].changes = "empty"
                    /\ stdout[1].analysis \notin {None, "from_model"})

\* C30 as claimed: in the history of every request sent, an assistant message
\* with k tool calls is followed at once by k tool messages, the n-th with the
\* id of the n-th call.
C30_EveryRequestAnswered ==
    pc = "call"
        => \A i \in 1..Len(payload.messages) :
              LET msg == payload.messages[i]
              IN (msg.role = "assistant" /\ msg.tool_calls # <<>>)
                    => (/\ i + Len(msg.tool_calls) <= Len(payload.messages)
                        /\ \A n \in 1..Len(msg.tool_calls) :
                              /\ payload.messages[i + n].role = "tool"
                              /\ payload.messages[i + n].tool_call_id
                                     = msg.tool_calls[n])

\* C32 as claimed: the history of every request sent starts with the system
\* message and the initial prompt, each with the content the payload was set
\* up with.
C32_AnchorsSentUnaltered ==
    pc = "call"
        => (/\ Len(payload.messages) >= 2
            /\ payload.messages[1] = SystemMessage
            /\ payload.messages[2] = InitialPrompt)

(***************************************************************************)
(* SpecSeed: the context seed, from the error log to the first request     *)
(***************************************************************************)
\* The three patterns of seed_context_from_errors, in the order it tries
\* them: path(line,col), "Error in path:line", path:line:col
Patterns == <<"paren", "error_in", "colon">>

\* The files of the repository: foo.ts has MaxFileLines lines, bar.ts does
\* not exist. A line is <<number, text>>; the text of at most one line is not
\* plain:
\*   run    it holds a run of two or more of } ' " ]
\*   huge   it is longer than MAX_CONTENT_CHARS
FileOf(total_lines, special, text) ==
    [i \in 1..total_lines |-> <<i, IF i = special THEN text ELSE "plain">>]

Repos ==
    {[path \in {"backend/src/foo.ts"} |-> FileOf(MaxFileLines, special, text)] :
        special \in 0..MaxFileLines, text \in {"run", "huge"}}

\* A reference of the error log: the pattern that matches it, the path and
\* the line number. The paths of this model start with backend/.
Reference(form, path, line) == [form |-> form, path |-> path, line |-> line]

References ==
    {Reference(form, target[1], target[2]) :
        form \in {"paren", "colon"},
        target \in {<<"backend/src/foo.ts", MaxFileLines - 2>>,
                    <<"backend/src/foo.ts", MaxFileLines + 1>>,
                    <<"backend/src/bar.ts", MaxFileLines - 2>>}}

ErrorLogs == UNION {[1..n -> References] : n \in 0..MaxRefs}

\* The cap of read_file: content[:MAX_CONTENT_CHARS] + "\n/* truncated */"
\* ends inside the first line that is longer than the cap
cap_content(content) ==
    IF \E i \in 1..Len(content) : content[i][2] = "huge"
    THEN LET h == CHOOSE i \in 1..Len(content) :
                     /\ content[i][2] = "huge"
                     /\ \A j \in 1..(i - 1) : content[j][2] # "huge"
         IN SubSeq(content, 1, h - 1) \o <<<<content[h][1], "huge_cut">>, <<0, "truncated">>>>
    ELSE content

\* read_file(path, lines) with a line number for lines
read_file(repo, path, line_num) ==
    IF path \notin DOMAIN repo
    THEN [error |-> TRUE, content |-> <<>>]
    ELSE LET file_lines == repo[path]
             start == Max(0, line_num - ContextLines)
             end == IF Len(file_lines) <= line_num + ContextLines
                    THEN Len(file_lines) ELSE line_num + ContextLines
         IN [error |-> FALSE, content |-> cap_content(SubSeq(file_lines, start + 1, end))]

\* The inner loop of seed_context_from_errors over the matches of one pattern
RECURSIVE seed_matches(_, _, _)
seed_matches(repo, matches, hints) ==
    IF matches = <<>> THEN hints
    ELSE LET match == Head(matches)
             result == read_file(repo, match.path, match.line)
             appended == IF ~result.error
                         THEN Append(hints, [file_path |-> match.path,
                                             line_num |-> match.line,
                                             excerpt |-> result.content])
                         ELSE hints
         IN IF Len(appended) >= MaxFiles THEN appended
            ELSE seed_matches(repo, Tail(matches), appended)

\* The outer loop, from pattern p on
RECURSIVE seed_patterns(_, _, _, _)
seed_patterns(repo, error_log, p, hints) ==
    IF p > Len(Patterns) THEN hints
    ELSE seed_patterns(repo, error_log, p + 1,
                       seed_matches(repo,
                                    SelectSeq(error_log, LAMBDA r : r.form = Patterns[p]),
                                    hints))

\* seed_context_from_errors: the hints it joins (none: the text "(no file
\* excerpts found in errors)")
seed_context_from_errors(repo, error_log) == seed_patterns(repo, error_log, 1, <<>>)

\* propose_changes up to the loop: the seed, the prompt, the payload
SeedContext ==
    /\ pc = "seed"
    /\ payload' = [messages |-> <<SystemMessage,
                                  SeededPrompt(seed_context_from_errors(last.repo,
                                                                        last.error_log))>>,
                   tools |-> get_mcp_tools_schema(mcp)]
    /\ pc' = "loop"
    /\ UNCHANGED <<mcp, last, peer, friend, max_iterations, api, iteration, pending, proposed, stdout,
                   exit_code, hist>>

InitSeed ==
    /\ mcp = InitMcp
    /\ last \in {[NoCall EXCEPT !.error_log = error_log, !.repo = repo] :
                    error_log \in ErrorLogs, repo \in Repos}
    /\ pc = "seed"
    /\ max_iterations = 1
    /\ api = NoApi
    /\ peer = NoPeer
    /\ friend = NoFriend
    /\ iteration = 0
    /\ payload = [messages |-> <<>>, tools |-> {}]
    /\ pending = <<>>
    /\ proposed = NotReturned
    /\ stdout = <<>>
    /\ exit_code = None
    /\ hist = NoHist

NextSeed == SeedContext \/ BeginIteration

SpecSeed == InitSeed /\ [][NextSeed]_vars

\* C20 as claimed: for a reference path(line,col) of the error log to a file
\* that exists and has at least that many lines, the user prompt of the first
\* request (no tool call issued yet) holds an excerpt of the file, as read,
\* that contains that line.
C20_ExcerptInFirstRequest ==
    pc = "call" /\ hist.calls = 0
       => \A i \in 1..Len(last.error_log) :
             LET ref == last.error_log[i]
                 seed == payload.messages[2].seeded_context
             IN (/\ ref.form = "paren"
                 /\ ref.path \in DOMAIN last.repo
                 /\ ref.line <= Len(last.repo[ref.path]))
                   => \E k \in 1..Len(seed) :
                         /\ seed[k].file_path = ref.path
                         /\ seed[k].line_num = ref.line
                         /\ \E j \in 1..Len(seed[k].excerpt) :
                               seed[k].excerpt[j] = last.repo[ref.path][ref.line]
                         /\ \A j \in 1..Len(seed[k].excerpt) :
                               seed[k].excerpt[j]
                                  = last.repo[ref.path][seed[k].excerpt[j][1]]

\* C34 as claimed: the seed embedded in the initial prompt holds at most
\* max_files excerpts, whatever references the error log holds.
C34_AtMostMaxFilesExcerpts ==
    pc # "seed" => Len(payload.messages[2].seeded_context) <= MaxFiles

(***************************************************************************)
(* SpecFriend: calls on the FriendAI object (friend-ai.py)                 *)
(***************************************************************************)
\* f"collab-{uuid.uuid4().hex[:12]}": the ids the tasks of this model get
TaskIds == {"collab-1", "collab-2"}

Senders == {"junior_ai", "friend_ai"}

\* TaskState: the states the code assigns, in the order of the protocol
TaskState == <<"pending", "running", "completed">>

StateRank(state) == CHOOSE i \in DOMAIN TaskState : TaskState[i] = state

\* A2ATask after __post_init__; a message is given by its sender, an
\* artifact by its type
A2ATask == [state |-> "pending", artifacts |-> <<>>, messages |-> <<>>]

\* create_collaboration_task, the uuid drawn being task_id
create_collaboration_task(f, task_id) ==
    [f EXCEPT !.active_tasks = Put(@, task_id, A2ATask)]

\* send_message
send_message(f, task_id, sender) ==
    IF task_id \notin DOMAIN f.active_tasks
    THEN [friend |-> f, status |-> "error"]
    ELSE [friend |-> [f EXCEPT !.active_tasks[task_id].messages = Append(@, sender),
                               !.active_tasks[task_id].state = "running"],
          status |-> "success"]

\* generate_friend_response; answered: the inference call returned 200 with a
\* message (otherwise the function returns an error and sends nothing)
generate_friend_response(f, task_id, answered) ==
    IF task_id \notin DOMAIN f.active_tasks
    THEN [friend |-> f, status |-> "error"]
    ELSE IF ~answered
    THEN [friend |-> f, status |-> "error"]
    ELSE send_message(f, task_id, "friend_ai")

\* create_artifact
create_artifact(f, task_id, artifact_type) ==
    IF task_id \notin DOMAIN f.active_tasks
    THEN [friend |-> f, status |-> "error"]
    ELSE [friend |-> [f EXCEPT !.active_tasks[task_id].artifacts =
                                   Append(@, artifact_type)],
          status |-> "success"]

\* finalize_collaboration
finalize_collaboration(f, task_id) ==
    IF task_id \notin DOMAIN f.active_tasks
    THEN [friend |-> f, status |-> "error"]
    ELSE [friend |-> [create_artifact(f, task_id, "mcp_strategy").friend
                         EXCEPT !.active_tasks[task_id].state = "completed"],
          status |-> "success"]

\* What a call on the FriendAI object leaves alone
FriendUnchanged ==
    UNCHANGED <<mcp, peer, pc, max_iterations, api, iteration, payload, pending,
                proposed, stdout, exit_code, hist>>

FriendReturns(op, task_id, r) ==
    /\ friend' = r.friend
    /\ last' = [NoCall EXCEPT !.op = op, !.name = task_id, !.status = r.status]
    /\ FriendUnchanged

HoldsMessages(task_id) ==
    task_id \in DOMAIN friend.active_tasks
        => Len(friend.active_tasks[task_id].messages) < MaxMessages

HoldsArtifacts(task_id) ==
    task_id \in DOMAIN friend.active_tasks
        => Len(friend.active_tasks[task_id].artifacts) < MaxArtifacts

CreateCollaborationTask ==
    \E task_id \in TaskIds \ DOMAIN friend.active_tasks :
        /\ friend' = create_collaboration_task(friend, task_id)
        /\ last' = [NoCall EXCEPT !.op = "create_collaboration_task",
                                  !.name = task_id, !.status = "success"]
        /\ FriendUnchanged

SendMessage ==
    \E task_id \in TaskIds :
        /\ HoldsMessages(task_id)
        /\ FriendReturns("send_message", task_id,
                         send_message(friend, task_id, "junior_ai"))

GenerateFriendResponse ==
    \E task_id \in TaskIds, answered \in BOOLEAN :
        /\ HoldsMessages(task_id)
        /\ FriendReturns("generate_friend_response", task_id,
                         generate_friend_response(friend, task_id, answered))

CreateArtifact ==
    \E task_id \in TaskIds :
        /\ HoldsArtifacts(task_id)
        /\ FriendReturns("create_artifact", task_id,
                         create_artifact(friend, task_id, "tool_design"))

FinalizeCollaboration ==
    \E task_id \in TaskIds :
        /\ HoldsArtifacts(task_id)
        /\ FriendReturns("finalize_collaboration", task_id,
                         finalize_collaboration(friend, task_id))

InitFriend == mcp = InitMcp /\ last = NoCall /\ IdleLoop

NextFriend ==
    \/ CreateCollaborationTask
    \/ SendMessage
    \/ GenerateFriendResponse
    \/ CreateArtifact
    \/ FinalizeCollaboration

SpecFriend == InitFriend /\ [][NextFriend]_vars

\* C39 as claimed: the state of a task never moves back along pending,
\* running, completed; a completed task stays completed whatever is called.
C39_StateOnlyMovesForward ==
    [][\A task_id \in DOMAIN friend.active_tasks :
          /\ task_id \in DOMAIN friend'.active_tasks
          /\ StateRank(friend'.active_tasks[task_id].state)
                 >= StateRank(friend.active_tasks[task_id].state)]_vars

(***************************************************************************)
(* SpecEscalation: a run whose every response requests tools, followed     *)
(* past the iterations at which the loop injects the synthesis directives  *)
(* and tries the RAG-focused history.  A turn is one step here: the        *)
(* assistant message is appended, then one tool message for each call      *)
(* whose arguments parse (or are recovered), in request order.             *)
(***************************************************************************)
\* What becomes of a tool call of a turn: it is skipped, or it is executed and
\* returns one of these contents
TurnOutcomes == {"skipped"} \cup TurnContents

ExploreTurn ==
    /\ pc = "call"
    /\ \E k \in 1..MaxToolCalls : \E outcomes \in [1..k -> TurnOutcomes] :
         LET ids == [i \in 1..k |-> <<iteration, i>>]
             executed == SelectSeq([i \in 1..k |-> i],
                                   LAMBDA i : outcomes[i] # "skipped")
             results == [n \in 1..Len(executed) |->
                            ToolResult(ids[executed[n]], outcomes[executed[n]])]
         IN /\ payload' = [payload EXCEPT !.messages =
                               Append(@, AssistantToolCalls(ids)) \o results]
            /\ hist' = [Sent(hist) EXCEPT
                           !.turn_start = Len(payload.messages),
                           !.turn_ids = ids,
                           !.skipped = {ids[i] : i \in {j \in 1..k :
                                                          outcomes[j] = "skipped"}}]
    /\ pc' = "loop"
    /\ UNCHANGED <<mcp, last, peer, friend, max_iterations, api, iteration, pending, proposed,
                   stdout, exit_code>>

InitEscalation ==
    /\ mcp = InitMcp
    /\ last = NoCall
    /\ pc = "loop"
    /\ max_iterations = MaxLateIterations
    /\ api = NoApi
    /\ peer = NoPeer
    /\ friend = NoFriend
    /\ iteration = 0
    /\ payload = [messages |-> <<SystemMessage, InitialPrompt>>,
                  tools |-> get_mcp_tools_schema(InitMcp)]
    /\ pending = <<>>
    /\ proposed = NotReturned
    /\ stdout = <<>>
    /\ exit_code = None
    /\ hist = NoHist

NextEscalation == BeginIteration \/ ExploreTurn

SpecEscalation == InitEscalation /\ [][NextEscalation]_vars

\* The two messages that tell the model to stop exploring and to return its
\* final JSON: "SYNTHESIS REQUIRED" and "SYNTHESIS MODE"
SynthesisDirectives ==
    {Msg("user", "synthesis_required"), Msg("user", "synthesis_mode")}

\* C28: from the first iteration above the synthesis threshold on, the history
\* of every request ends with a directive to stop exploring and return the
\* final output, and the directive injected on that iteration is in it: it is
\* the last message, or the last but one when the second directive of the
\* iterations above the RAG threshold follows it.
C28_DirectiveEndsRequest ==
    (pc = "call" /\ iteration > SynthesisAfterIteration)
        => LET messages == payload.messages
               n == Len(messages)
           IN /\ n > 2
              /\ messages[n] \in SynthesisDirectives
              /\ IF iteration > RagAfterIteration
                 THEN /\ messages[n] = Msg("user", "synthesis_mode")
                      /\ messages[n - 1] = Msg("user", "synthesis_required")
                 ELSE messages[n] = Msg("user", "synthesis_required")

\* C28 witness: a request above the RAG threshold whose history was compressed
\* on this iteration (the summary is in it, and the directives of the
\* iterations before are gone) and ends with the two directives.
C28_Witness ==
    /\ pc = "call"
    /\ iteration > RagAfterIteration
    /\ payload.messages[3] = SummaryMessage
    /\ Len(SelectSeq(payload.messages, LAMBDA msg : msg \in SynthesisDirectives)) = 2
    /\ payload.messages[Len(payload.messages)] = Msg("user", "synthesis_mode")

\* C29 as claimed: above the RAG threshold, when key terms were found in the
\* recent messages and semantic_search returned no error, the history of the
\* request is the system message, the initial prompt, the RAG context message
\* and the most recent messages.
C29_RagContextSubstituted ==
    (/\ pc = "call"
     /\ iteration > RagAfterIteration
     /\ hist.rag.terms_found
     /\ hist.rag.available)
        => (/\ Len(payload.messages) >= 3
            /\ payload.messages[1].role = "system"
            /\ payload.messages[2].role = "user"
            /\ payload.messages[3] = RagContextMessage
            /\ Len(payload.messages) <= 3 + RagRecentKept + 1)

\* C31: from the third iteration on, the history of every request sent holds
\* at most 8 messages.
C31_AtMostEightMessages ==
    (pc = "call" /\ iteration >= 3) => Len(payload.messages) <= 8

\* C31 witness: a request of a late iteration, after turns that each requested
\* the largest number of tools and had them all executed: the history holds
\* the two anchors, the summary, two tool messages and the two directives.
C31_Witness ==
    /\ pc = "call"
    /\ iteration > RagAfterIteration
    /\ hist.calls = iteration - 1
    /\ Len(payload.messages) = 7
    /\ payload.messages[3] = SummaryMessage
    /\ payload.messages[4].role = "tool"
    /\ payload.messages[4].tool_call_id = <<iteration - 1, MaxToolCalls - 1>>

====
